---- MODULE Spec2Model ----
(***************************************************************************)
(* Model of the Bleemeo connector (bleemeo_agent/bleemeo.py): the metric   *)
(* identity cache, the outbound metric queue and its drain loop, and the   *)
(* periodic synchronization pass against the registry (services,           *)
(* containers, metrics, thresholds).                                       *)
(*                                                                         *)
(* Threads: producers calling emit_metric, the connector thread running    *)
(* _loop, the scheduler thread running _bleemeo_synchronize.  The registry *)
(* and the local discovery (core.services, core.docker_containers) are the *)
(* environment.                                                            *)
(***************************************************************************)
EXTENDS Integers, Sequences, FiniteSets, TLC

\* Python's None.
None == "None"

(***************************************************************************)
(* Bounds of the model.                                                    *)
(***************************************************************************)
\* Number of points producers emit in one behaviour (object identities).
MaxPoints == 2
\* Scaled stand-in for the queue ceiling 100000 of emit_metric.
QueueCeiling == 1
\* Scaled stand-in for the batch ceiling 1000 of _loop.
BatchCeiling == 1
\* Number of environment events (remote deletions, discovery changes).
MaxEnv == 1
\* Latest instant of the clock.
MaxClock == 2
\* Scaled stand-in for the 60 * 60 seconds between two full reconciliations.
FullSyncDelay == 1
\* Scaled stand-in for MQTT_QUEUE_MAX_SIZE = 2000.
MqttQueueMaxSize == 1
\* Number of transport events (connections, top-info publications).
MaxMqttEvents == 2

Producers == {"p1"}

\* The contexts that call publish: the connector thread (_loop and the end
\* of run), the scheduled top-info job, and the network thread of the MQTT
\* client (on_connect, on_publish).
Contexts == {"loop", "job", "net"}

\* The identifiers the registry hands out, in order.
Uuids == <<"u1", "u2", "u3", "u4", "u5", "u6", "u7", "u8">>
\* The object identities of the points, in order of emission.
Pids == <<"o1", "o2", "o3", "o4", "o5", "o6">>

(***************************************************************************)
(* Metric points and identities.                                           *)
(***************************************************************************)
\* A point as core.emit_metric hands it over; a field the dict does not
\* carry reads as None (metric.get).
Point(measurement, service, item, status, status_of, instance, container) ==
    [measurement |-> measurement, service |-> service, item |-> item,
     status |-> status, status_of |-> status_of, instance |-> instance,
     container |-> container]

PtCpu == Point("cpu", None, None, None, None, None, None)
PtCpuStatus == Point("cpu_status", None, None, "ok", "cpu", None, None)
PtMysql == Point("mysql_status", "mysql", None, "ok", None, None, None)
PtDocker == Point("docker_cpu", None, "web1", None, None, None, "web1")
PtEs == Point("elasticsearch_search_time", "elasticsearch", None, None, None,
              None, None)

\* key = (metric_name, service, item)
KeyOf(metric) == <<metric.measurement, metric.service, metric.item>>

\* No point, no key and no payload: the locals of emit_metric, _loop and
\* _register_metric before they are bound.
NoPoint == [pid |-> None]
NoKey == <<None, None, None>>
NoPayload == [label |-> None]

AgentStatusKey == <<"agent_status", None, None>>

\* The configuration check_config_requirement needs.
ConfigKeys == {"account_id", "registration_key"}

\* check_config_requirement: the first delay and the longest one.
SleepDelayFirst == 10
SleepDelayMax == 600

\* run, line 243: the seconds the thread waits for the in-flight messages.
DisconnectDeadline == 5

\* The identifier the registry gives to this agent.
AgentUuid == "agent-1"

\* What bleemeo_agent.util.generate_password() returns.
Password == "secret"

\* config 'metric.alerting_metric'
AlertingMetrics == {"agent_status"}

VARIABLES
    \* ---- identity cache (guarded by metrics_lock)
    metrics_uuid,       \* key -> remote identifier, or None (unresolved)
    metrics_info,       \* key -> [status_of, instance, container]
    \* ---- outbound queue and its producers
    metric_queue,       \* self._metric_queue, a FIFO of points
    ppc,                \* producer -> position in emit_metric
    pmetric,            \* producer -> the point it is emitting
    world,              \* the environment of this run (fixed): the points
                        \* emitted, what the discovery can find, the
                        \* answers the registry can give
    next_pid,           \* next object identity of a point
    \* ---- drain loop (_loop)
    lpc,                \* position of the connector thread in run/_loop
    l_metrics,          \* local list "metrics": the batch being built
    l_repush,           \* local "repush_metric" (an object identity)
    l_metric,           \* the point just dequeued, waiting to be re-queued
    published,          \* sequence of batches handed to publish()
    \* ---- synchronization pass (_bleemeo_synchronize)
    spc,                \* position in the pass
    s_now,              \* local clock_now
    s_todo,             \* entries the current loop has still to visit
    s_list,             \* the dict snapshot the current loop iterates
    s_key,              \* _register_metric: the metric being registered
    s_payload,          \* _register_metric: the payload built for it
    s_data,             \* rows of the fetched remote metric list
    calls,              \* registry calls of the current pass, in order
    \* ---- connector fields and core state
    alerting_mode,
    last_update, last_discovery_sent, last_containers_removed,
    services_uuid,      \* (name, instance) -> entry with 'uuid'
    container_uuid,     \* state 'docker_container_uuid': name -> (hash, uuid)
    state_metrics_uuid, \* persisted copy of metrics_uuid
    state_services_uuid,\* persisted copy of services_uuid
    thresholds,         \* state 'thresholds': set of (label, item) with bounds
    \* ---- environment: discovery, clock, registry
    services,           \* core.services: (name, instance) -> service_info
    docker_containers,  \* core.docker_containers: name -> inspect
    last_discovery_update, last_services_autoremove,
    clock,
    remote_metrics,     \* registry: identifier -> [label, item]
    remote_services,    \* registry: identifiers of this agent's services
    remote_containers,  \* registry: identifiers of this agent's containers
    next_id,            \* next identifier the registry hands out
    env_events,         \* environment events so far
    \* ---- MQTT transport
    mqtt_queue_size,    \* self._mqtt_queue_size, the in-flight counter
    connected,          \* self.connected
    terminating,        \* core.is_terminating.is_set()
    pub_pc,             \* context -> position in publish or on_publish
    pub_reg,            \* context -> the counter value it has read
    pub_msg,            \* context -> the message it is publishing
    inflight,           \* broker: messages handed over, not acknowledged
    mqtt_events,        \* transport events so far
    offered,            \* the last message given to publish() and whether
                        \* it passed the ceiling test; n flips at every call
    \* ---- the lock of the identity cache
    metrics_lock,       \* self.metrics_lock: the thread holding it, or None
    s_answer,           \* data['id'] of the answer to the create call
    \* ---- run(): configuration, registration, transport
    config,             \* the keys core.config holds a value for
    sleep_delay,        \* check_config_requirement: local sleep_delay
    waited,             \* the delay of its last wait, 0 before the first
    sync_scheduled,     \* the job _bleemeo_synchronize is scheduled
    agent_uuid,         \* state 'agent_uuid', or None
    password,           \* state 'password', or None
    last_facts,         \* core.last_facts: the facts known (fqdn first)
    transport,          \* the MQTT client: "none", "started", "stopped"
    subscribed,         \* the broker holds the subscription of the
                        \* present connection to the notification topic
    close_waited,       \* run(): seconds waited for the in-flight
                        \* messages before the disconnection
    \* ---- history
    boot,               \* "init" until __init__ has run _apply_upgrade
    created,            \* {<<key, id>>}: successful metric create calls
    resync_pending,     \* a resync message was handled and no pass has
                        \* started since
    callback_error,     \* an exception has left on_message
    settled,            \* passes run to their end since the last change
                        \* of the discovery, the registry or the
                        \* identities emitted
    emitted_unresolved, \* identities of the points emitted with no identifier
    ov_services,        \* the service map _apply_service_override works on
    ov_override,        \* the list of the configured overrides
    ov_done             \* number of the overrides already applied

cacheVars == <<metrics_uuid, metrics_info, state_metrics_uuid, thresholds>>
queueVars == <<metric_queue, next_pid>>
prodVars == <<ppc, pmetric, world, emitted_unresolved>>
loopVars == <<lpc, l_metrics, l_repush, l_metric, published>>
syncVars == <<spc, s_now, s_todo, s_list, s_key, s_payload, s_data, calls>>
connVars == <<alerting_mode, last_update, last_discovery_sent,
              last_containers_removed>>
entityVars == <<services_uuid, container_uuid, state_services_uuid>>
discoVars == <<services, docker_containers, last_discovery_update,
               last_services_autoremove>>
regVars == <<remote_metrics, remote_services, remote_containers, next_id>>
envVars == <<clock, env_events, boot, created>>
mqttVars == <<mqtt_queue_size, connected, terminating, pub_pc, pub_reg,
              pub_msg, inflight, mqtt_events, offered>>

ghostVars == <<resync_pending, callback_error>>
lockVars == <<metrics_lock, s_answer>>
runVars == <<config, sleep_delay, waited, sync_scheduled, agent_uuid,
             password, last_facts, transport, subscribed, close_waited>>

overrideVars == <<ov_services, ov_override, ov_done>>

vars == <<cacheVars, queueVars, prodVars, loopVars, syncVars, connVars,
          entityVars, discoVars, regVars, envVars, mqttVars, ghostVars,
          lockVars, runVars, overrideVars, settled>>

(***************************************************************************)
(* Small helpers on functions used as Python dicts.                        *)
(***************************************************************************)
\* d with key k removed (del d[k]).
DictDel(d, k) == [x \in DOMAIN d \ {k} |-> d[x]]

\* d with d[k] = v (insert or overwrite).
DictSet(d, k, v) == (k :> v) @@ d

\* A store that would overwrite the value of a key already there.
SetAlways(d, k, v) == (k :> v) @@ d

\* d.setdefault(k, v): only an absent key is written.
SetDefault(d, k, v) == IF k \in DOMAIN d THEN d ELSE (k :> v) @@ d

\* The empty dict.
EmptyDict == [x \in {} |-> None]

(***************************************************************************)
(* metrics_lock.                                                           *)
(***************************************************************************)
\* The thread is at a `with self.metrics_lock:` statement: a producer at
\* line 1002, the synchronization at lines 608, 759, 770 or 858.
AtLockedSection(holder) ==
    IF holder = "sync"
    THEN \/ spc = "thr_del" /\ s_todo = {}
         \/ spc = "services" /\ s_todo = {}
         \/ spc = "metrics" /\ s_todo # {}
         \/ spc = "metric_store"
    ELSE ppc[holder] = "record"

\* A `with` block that would end without giving the lock back.
KeepLock(holder) == holder

\* The end of a `with self.metrics_lock:` block: the lock is free again.
Release(holder) == None

\* threading.Lock.acquire: the lock is free and the thread takes it.
Acquire(holder) ==
    /\ metrics_lock = None
    /\ AtLockedSection(holder)
    /\ metrics_lock' = holder
    /\ UNCHANGED s_answer
    /\ UNCHANGED mqttVars
    /\ UNCHANGED ghostVars
    /\ UNCHANGED runVars
    /\ UNCHANGED overrideVars
    /\ UNCHANGED settled
    /\ UNCHANGED <<cacheVars, queueVars, prodVars, loopVars, syncVars,
                   connVars, entityVars, discoVars, regVars, envVars>>

(***************************************************************************)
(* sent_metric and emit_metric (producer threads).                         *)
(***************************************************************************)
\* sent_metric: in alerting mode only whitelisted metrics or metrics with a
\* status are sent.
SentMetric(metric_name, metric_has_status) ==
    \/ ~alerting_mode
    \/ metric_has_status
    \/ metric_name \in AlertingMetrics

\* The value the cache holds for key: the identifier, None, or "absent".
CacheValue(key) ==
    IF key \in DOMAIN metrics_uuid THEN metrics_uuid[key] ELSE "absent"

\* The queue admission test of emit_metric.
QueueHasRoom == Len(metric_queue) < QueueCeiling

\* emit_metric, lines 993-997: the call, the sent_metric filter and the
\* test of the queue size.  The point gets its object identity "pid".
EmitMetric(p, t) ==
    /\ boot = "run"
    /\ ppc[p] = "idle"
    /\ t \in world.emit
    /\ next_pid <= MaxPoints
    /\ SentMetric(t.measurement, t.status # None)
    /\ pmetric' = [pmetric EXCEPT ![p] = ("pid" :> Pids[next_pid]) @@ t]
    /\ next_pid' = next_pid + 1
    /\ ppc' = [ppc EXCEPT ![p] = IF QueueHasRoom THEN "put" ELSE "record"]
    /\ emitted_unresolved' =
           IF CacheValue(KeyOf(t)) \in {None, "absent"}
           THEN emitted_unresolved \cup {Pids[next_pid]}
           ELSE emitted_unresolved
    /\ UNCHANGED mqttVars
    /\ UNCHANGED ghostVars
    /\ UNCHANGED lockVars
    /\ UNCHANGED runVars
    /\ UNCHANGED overrideVars
    /\ UNCHANGED settled
    /\ UNCHANGED <<cacheVars, metric_queue, world, loopVars, syncVars,
                   connVars, entityVars, discoVars, regVars, envVars>>

\* emit_metric, line 998: self._metric_queue.put(metric).
EmitPut(p) ==
    /\ ppc[p] = "put"
    /\ metric_queue' = Append(metric_queue, pmetric[p])
    /\ ppc' = [ppc EXCEPT ![p] = "record"]
    /\ UNCHANGED mqttVars
    /\ UNCHANGED ghostVars
    /\ UNCHANGED lockVars
    /\ UNCHANGED runVars
    /\ UNCHANGED overrideVars
    /\ UNCHANGED settled
    /\ UNCHANGED <<cacheVars, next_pid, pmetric, world,
                   emitted_unresolved, loopVars, syncVars, connVars,
                   entityVars, discoVars, regVars, envVars>>

\* The info emit_metric records for a point.
InfoOf(metric) ==
    [status_of |-> metric.status_of, instance |-> metric.instance,
     container |-> metric.container]

\* An emit_metric that would record the identity without taking the lock.
EmitRecordUnlocked(p) ==
    /\ ppc[p] = "record"
    /\ LET key == KeyOf(pmetric[p]) IN
       /\ metrics_info' = SetDefault(metrics_info, key, InfoOf(pmetric[p]))
       /\ metrics_uuid' = SetDefault(metrics_uuid, key, None)
    /\ ppc' = [ppc EXCEPT ![p] = "idle"]
    /\ pmetric' = [pmetric EXCEPT ![p] = NoPoint]
    /\ UNCHANGED mqttVars
    /\ UNCHANGED ghostVars
    /\ UNCHANGED metrics_lock
    /\ UNCHANGED s_answer
    /\ UNCHANGED runVars
    /\ UNCHANGED overrideVars
    /\ settled' = IF KeyOf(pmetric[p]) \in DOMAIN metrics_uuid THEN settled
                  ELSE "changed"
    /\ UNCHANGED <<state_metrics_uuid, thresholds, queueVars, world,
                   emitted_unresolved, loopVars, syncVars, connVars,
                   entityVars, discoVars, regVars, envVars>>

\* emit_metric, lines 1002-1015, under metrics_lock: first-write-wins
\* recording of the info and of the (unresolved) identity.
EmitRecord(p) ==
    /\ ppc[p] = "record"
    /\ metrics_lock = p
    /\ LET key == KeyOf(pmetric[p]) IN
       /\ metrics_info' = SetDefault(metrics_info, key, InfoOf(pmetric[p]))
       /\ metrics_uuid' = SetDefault(metrics_uuid, key, None)
    /\ ppc' = [ppc EXCEPT ![p] = "idle"]
    /\ pmetric' = [pmetric EXCEPT ![p] = NoPoint]
    /\ UNCHANGED mqttVars
    /\ UNCHANGED ghostVars
    /\ metrics_lock' = Release(metrics_lock)
    /\ UNCHANGED s_answer
    /\ UNCHANGED runVars
    /\ UNCHANGED overrideVars
    /\ settled' = IF KeyOf(pmetric[p]) \in DOMAIN metrics_uuid THEN settled
                  ELSE "changed"
    /\ UNCHANGED <<state_metrics_uuid, thresholds, queueVars, world,
                   emitted_unresolved, loopVars, syncVars, connVars,
                   entityVars, discoVars, regVars, envVars>>

(***************************************************************************)
(* _loop (connector thread) and publish.                                   *)
(***************************************************************************)
\* bleemeo_metric = metric.copy(); bleemeo_metric['uuid'] = metric_uuid
WithUuid(metric, metric_uuid) == ("uuid" :> metric_uuid) @@ metric

\* A drain loop that would send every point whose identity is cached,
\* resolved or not.
LoopVerdictEager(metric) ==
    IF KeyOf(metric) \in DOMAIN metrics_uuid THEN "send" ELSE "drop"

\* What _loop does with a dequeued point, from the cache lookup
\* self.metrics_uuid.get(key, 'deleted').
LoopVerdict(metric) ==
    LET metric_uuid == CacheValue(KeyOf(metric)) IN
    IF metric_uuid = "absent" THEN "drop"
    ELSE IF metric_uuid = None THEN "requeue"
    ELSE "send"

\* The batch is closed once it holds more than the ceiling.
BatchFull(batch) == Len(batch) > BatchCeiling

(***************************************************************************)
(* publish and on_publish.  The in-flight counter is read and written by   *)
(* three threads without a lock; `+= 1` and `-= 1` are a read followed by  *)
(* a write, and another thread can run in between.                         *)
(***************************************************************************)
\* A publish that would know no ceiling.
PublishAnyway(c, msg, force) ==
    /\ offered' = [n |-> 1 - offered.n, context |-> c, msg |-> msg,
                   force |-> force, passed |-> TRUE]
    /\ pub_pc' = [pub_pc EXCEPT ![c] = "load"]
    /\ pub_msg' = [pub_msg EXCEPT ![c] = msg]

\* publish, lines 438-441, called by context c: the ceiling test.  A
\* message that passes goes on to the increment.
Publish(c, msg, force) ==
    IF mqtt_queue_size > MqttQueueMaxSize /\ ~force
    THEN /\ offered' = [n |-> 1 - offered.n, context |-> c, msg |-> msg,
                        force |-> force, passed |-> FALSE]
         /\ UNCHANGED <<pub_pc, pub_msg>>
    ELSE /\ offered' = [n |-> 1 - offered.n, context |-> c, msg |-> msg,
                        force |-> force, passed |-> TRUE]
         /\ pub_pc' = [pub_pc EXCEPT ![c] = "load"]
         /\ pub_msg' = [pub_msg EXCEPT ![c] = msg]

\* publish, line 442: the read of `self._mqtt_queue_size += 1`.
PublishLoad(c) ==
    /\ pub_pc[c] = "load"
    /\ pub_reg' = [pub_reg EXCEPT ![c] = mqtt_queue_size]
    /\ pub_pc' = [pub_pc EXCEPT ![c] = "store"]
    /\ UNCHANGED <<mqtt_queue_size, connected, terminating, pub_msg,
                   inflight, mqtt_events, offered>>
    /\ UNCHANGED ghostVars
    /\ UNCHANGED lockVars
    /\ UNCHANGED runVars
    /\ UNCHANGED overrideVars
    /\ UNCHANGED settled
    /\ UNCHANGED <<cacheVars, queueVars, prodVars, loopVars, syncVars,
                   connVars, entityVars, discoVars, regVars, envVars>>

\* publish, lines 442-446: the write of the increment, and the message is
\* handed to the MQTT client.  When on_connect is the caller it goes on with
\* the subscription, lines 158-160.
PublishStore(c) ==
    /\ pub_pc[c] = "store"
    /\ mqtt_queue_size' = pub_reg[c] + 1
    /\ inflight' = inflight + 1
    /\ pub_pc' = [pub_pc EXCEPT ![c] = "idle"]
    /\ pub_reg' = [pub_reg EXCEPT ![c] = 0]
    /\ pub_msg' = [pub_msg EXCEPT ![c] = None]
    /\ UNCHANGED <<connected, terminating, mqtt_events, offered>>
    /\ UNCHANGED ghostVars
    /\ UNCHANGED lockVars
    /\ subscribed' = IF c = "net" /\ pub_msg[c] = "connect" THEN TRUE
                     ELSE subscribed
    /\ UNCHANGED <<config, sleep_delay, waited, sync_scheduled, agent_uuid,
                   password, last_facts, transport, close_waited>>
    /\ UNCHANGED overrideVars
    /\ UNCHANGED settled
    /\ UNCHANGED <<cacheVars, queueVars, prodVars, loopVars, syncVars,
                   connVars, entityVars, discoVars, regVars, envVars>>

\* run, line 233: between two calls of _loop the thread looks at
\* is_terminating.
LoopOver == terminating /\ l_metrics = <<>> /\ l_repush = None


\* A test that would not look at agent_status.
ReadyWithoutStatus == agent_uuid # None /\ last_facts

\* _ready_for_mqtt, lines 269-281: the agent is registered, its facts are
\* known and agent_status holds an identifier.
ReadyForMqtt ==
    /\ agent_uuid # None
    /\ last_facts
    /\ CacheValue(AgentStatusKey) \notin {None, "absent"}

\* run, lines 226-234: the connector thread waits to be ready for MQTT,
\* sets the transport up and starts calling _loop.
LoopStart ==
    /\ boot = "run"
    /\ lpc = "wait"
    /\ ReadyForMqtt
    /\ lpc' = "get"
    /\ UNCHANGED mqttVars
    /\ UNCHANGED ghostVars
    /\ UNCHANGED lockVars
    /\ transport' = "started"
    /\ UNCHANGED <<config, sleep_delay, waited, sync_scheduled, agent_uuid,
                   password, last_facts, subscribed, close_waited>>
    /\ UNCHANGED overrideVars
    /\ UNCHANGED settled
    /\ UNCHANGED <<cacheVars, queueVars, prodVars, l_metrics, l_repush,
                   l_metric, published, syncVars, connVars, entityVars,
                   discoVars, regVars, envVars>>

\* _loop, lines 385-394 and 412-416: get a point and look its identity up.
LoopGet ==
    /\ lpc = "get"
    /\ pub_pc["loop"] = "idle"
    /\ ~LoopOver
    /\ metric_queue # <<>>
    /\ LET metric == Head(metric_queue)
           verdict == LoopVerdict(metric)
           batch == Append(l_metrics,
                           WithUuid(metric, CacheValue(KeyOf(metric))))
       IN
       /\ metric_queue' = Tail(metric_queue)
       /\ l_metric' = IF verdict = "requeue" THEN metric ELSE NoPoint
       /\ l_metrics' = IF verdict = "send" THEN batch ELSE l_metrics
       /\ lpc' = IF verdict = "requeue" THEN "requeue"
                 ELSE IF verdict = "send" /\ BatchFull(batch) THEN "publish"
                 ELSE "get"
    /\ UNCHANGED mqttVars
    /\ UNCHANGED ghostVars
    /\ UNCHANGED lockVars
    /\ UNCHANGED runVars
    /\ UNCHANGED overrideVars
    /\ UNCHANGED settled
    /\ UNCHANGED <<cacheVars, next_pid, prodVars, l_repush, published,
                   syncVars, connVars, entityVars, discoVars, regVars,
                   envVars>>

\* _loop, lines 396-410: the identifier is not available, the point is put
\* back; when the first re-pushed point comes back the loop sleeps and ends.
LoopRequeue ==
    /\ lpc = "requeue"
    /\ metric_queue' = Append(metric_queue, l_metric)
    /\ l_metric' = NoPoint
    /\ IF l_repush = l_metric.pid
       THEN lpc' = "publish" /\ UNCHANGED l_repush
       ELSE /\ lpc' = "get"
            /\ l_repush' = IF l_repush = None THEN l_metric.pid ELSE l_repush
    /\ UNCHANGED mqttVars
    /\ UNCHANGED ghostVars
    /\ UNCHANGED lockVars
    /\ UNCHANGED runVars
    /\ UNCHANGED overrideVars
    /\ UNCHANGED settled
    /\ UNCHANGED <<cacheVars, next_pid, prodVars, l_metrics, published,
                   syncVars, connVars, entityVars, discoVars, regVars,
                   envVars>>

\* _loop, lines 385 and 417-418: the get times out on an empty queue.
LoopTimeout ==
    /\ lpc = "get"
    /\ pub_pc["loop"] = "idle"
    /\ metric_queue = <<>>
    /\ ~(l_metrics = <<>> /\ l_repush = None)
    /\ lpc' = "publish"
    /\ UNCHANGED mqttVars
    /\ UNCHANGED ghostVars
    /\ UNCHANGED lockVars
    /\ UNCHANGED runVars
    /\ UNCHANGED overrideVars
    /\ UNCHANGED settled
    /\ UNCHANGED <<cacheVars, queueVars, prodVars, l_metrics, l_repush,
                   l_metric, published, syncVars, connVars, entityVars,
                   discoVars, regVars, envVars>>

\* A loop that would keep its batch after handing it to publish.
LoopPublishKeep ==
    /\ lpc = "publish"
    /\ IF Len(l_metrics) # 0
       THEN /\ published' = Append(published, l_metrics)
            /\ Publish("loop", "data", FALSE)
       ELSE UNCHANGED <<published, pub_pc, pub_msg, offered>>
    /\ UNCHANGED l_metrics
    /\ l_repush' = None
    /\ lpc' = "get"
    /\ UNCHANGED <<mqtt_queue_size, connected, terminating, pub_reg,
                   inflight, mqtt_events>>
    /\ UNCHANGED ghostVars
    /\ UNCHANGED lockVars
    /\ UNCHANGED runVars
    /\ UNCHANGED overrideVars
    /\ UNCHANGED settled
    /\ UNCHANGED <<cacheVars, queueVars, prodVars, l_metric, syncVars,
                   connVars, entityVars, discoVars, regVars, envVars>>

\* _loop, lines 420-424, and the start of the next _loop of run().
LoopPublish ==
    /\ lpc = "publish"
    /\ IF Len(l_metrics) # 0
       THEN /\ published' = Append(published, l_metrics)
            /\ Publish("loop", "data", FALSE)
       ELSE UNCHANGED <<published, pub_pc, pub_msg, offered>>
    /\ l_metrics' = <<>>
    /\ l_repush' = None
    /\ lpc' = "get"
    /\ UNCHANGED <<mqtt_queue_size, connected, terminating, pub_reg,
                   inflight, mqtt_events>>
    /\ UNCHANGED ghostVars
    /\ UNCHANGED lockVars
    /\ UNCHANGED runVars
    /\ UNCHANGED overrideVars
    /\ UNCHANGED settled
    /\ UNCHANGED <<cacheVars, queueVars, prodVars, l_metric, syncVars,
                   connVars, entityVars, discoVars, regVars, envVars>>

(***************************************************************************)
(* The MQTT callbacks, the top-info job and the end of run().              *)
(***************************************************************************)
\* on_connect with rc = 0, lines 144-161, on the network thread: the
\* connect message is published without force, then the notification topic
\* is subscribed to (at once when publish drops the message, otherwise
\* when publish returns).
OnConnect ==
    /\ world.mqtt
    /\ transport = "started"
    /\ ~connected
    /\ pub_pc["net"] = "idle"
    /\ mqtt_events < MaxMqttEvents
    /\ mqtt_events' = mqtt_events + 1
    /\ IF ~terminating
       THEN /\ connected' = TRUE
            /\ Publish("net", "connect", FALSE)
            /\ subscribed' = IF pub_pc'["net"] = "idle" THEN TRUE
                             ELSE subscribed
       ELSE UNCHANGED <<connected, pub_pc, pub_msg, offered, subscribed>>
    /\ UNCHANGED <<mqtt_queue_size, terminating, pub_reg, inflight>>
    /\ UNCHANGED ghostVars
    /\ UNCHANGED lockVars
    /\ UNCHANGED <<config, sleep_delay, waited, sync_scheduled, agent_uuid,
                   password, last_facts, transport, close_waited>>
    /\ UNCHANGED overrideVars
    /\ UNCHANGED settled
    /\ UNCHANGED <<cacheVars, queueVars, prodVars, loopVars, syncVars,
                   connVars, entityVars, discoVars, regVars, envVars>>

\* on_disconnect, lines 163-166; the subscription ends with the connection.
OnDisconnect ==
    /\ world.mqtt
    /\ transport = "started"
    /\ connected
    /\ pub_pc["net"] = "idle"
    /\ connected' = FALSE
    /\ UNCHANGED <<mqtt_queue_size, terminating, pub_pc, pub_reg, pub_msg,
                   inflight, mqtt_events, offered>>
    /\ UNCHANGED ghostVars
    /\ UNCHANGED lockVars
    /\ subscribed' = FALSE
    /\ UNCHANGED <<config, sleep_delay, waited, sync_scheduled, agent_uuid,
                   password, last_facts, transport, close_waited>>
    /\ UNCHANGED overrideVars
    /\ UNCHANGED settled
    /\ UNCHANGED <<cacheVars, queueVars, prodVars, loopVars, syncVars,
                   connVars, entityVars, discoVars, regVars, envVars>>

\* on_publish, lines 183-184, on the network thread: the broker has
\* acknowledged a message; the read of `self._mqtt_queue_size -= 1`.
OnPublish ==
    /\ world.mqtt
    /\ transport = "started"
    /\ connected
    /\ inflight > 0
    /\ pub_pc["net"] = "idle"
    /\ inflight' = inflight - 1
    /\ pub_reg' = [pub_reg EXCEPT !["net"] = mqtt_queue_size]
    /\ pub_pc' = [pub_pc EXCEPT !["net"] = "ack"]
    /\ UNCHANGED <<mqtt_queue_size, connected, terminating, pub_msg,
                   mqtt_events, offered>>
    /\ UNCHANGED ghostVars
    /\ UNCHANGED lockVars
    /\ UNCHANGED runVars
    /\ UNCHANGED overrideVars
    /\ UNCHANGED settled
    /\ UNCHANGED <<cacheVars, queueVars, prodVars, loopVars, syncVars,
                   connVars, entityVars, discoVars, regVars, envVars>>

\* on_publish, line 184: the write of the decrement.
OnPublishStore ==
    /\ pub_pc["net"] = "ack"
    /\ mqtt_queue_size' = pub_reg["net"] - 1
    /\ pub_pc' = [pub_pc EXCEPT !["net"] = "idle"]
    /\ pub_reg' = [pub_reg EXCEPT !["net"] = 0]
    /\ UNCHANGED <<connected, terminating, pub_msg, inflight, mqtt_events,
                   offered>>
    /\ UNCHANGED ghostVars
    /\ UNCHANGED lockVars
    /\ UNCHANGED runVars
    /\ UNCHANGED overrideVars
    /\ UNCHANGED settled
    /\ UNCHANGED <<cacheVars, queueVars, prodVars, loopVars, syncVars,
                   connVars, entityVars, discoVars, regVars, envVars>>

\* publish_top_info, lines 426-436, on the thread of its job: nothing is
\* published without agent identifier or connection.
PublishTopInfo ==
    /\ world.mqtt
    /\ boot = "run"
    /\ pub_pc["job"] = "idle"
    /\ mqtt_events < MaxMqttEvents
    /\ mqtt_events' = mqtt_events + 1
    /\ IF connected
       THEN Publish("job", "top_info", FALSE)
       ELSE UNCHANGED <<pub_pc, pub_msg, offered>>
    /\ UNCHANGED <<mqtt_queue_size, connected, terminating, pub_reg,
                   inflight>>
    /\ UNCHANGED ghostVars
    /\ UNCHANGED lockVars
    /\ UNCHANGED runVars
    /\ UNCHANGED overrideVars
    /\ UNCHANGED settled
    /\ UNCHANGED <<cacheVars, queueVars, prodVars, loopVars, syncVars,
                   connVars, entityVars, discoVars, regVars, envVars>>

\* The agent is asked to stop: core.is_terminating is set.
Terminate ==
    /\ world.mqtt
    /\ boot = "run"
    /\ ~terminating
    /\ terminating' = TRUE
    /\ UNCHANGED <<mqtt_queue_size, connected, pub_pc, pub_reg, pub_msg,
                   inflight, mqtt_events, offered>>
    /\ UNCHANGED ghostVars
    /\ UNCHANGED lockVars
    /\ UNCHANGED runVars
    /\ UNCHANGED overrideVars
    /\ UNCHANGED settled
    /\ UNCHANGED <<cacheVars, queueVars, prodVars, loopVars, syncVars,
                   connVars, entityVars, discoVars, regVars, envVars>>

\* Line 236: self.connected and not self.upgrade_in_progress.
SaysGoodbye(upgrade_in_progress) == connected /\ ~upgrade_in_progress

\* run, lines 226-229 and 233-241: the thread leaves its loops once
\* is_terminating is set; after the drain loop, when connected and no
\* upgrade is in progress, the disconnect message is published with force.
Shutdown ==
    /\ terminating
    /\ pub_pc["loop"] = "idle"
    /\ IF lpc = "wait"
       THEN /\ ~ReadyForMqtt
            /\ lpc' = "stopped"
            /\ UNCHANGED <<pub_pc, pub_msg, offered>>
       ELSE /\ lpc = "get"
            /\ LoopOver
            /\ lpc' = "closing"
            /\ \E upgrade_in_progress \in world.upgrades :
                   IF SaysGoodbye(upgrade_in_progress)
                   THEN Publish("loop", "disconnect", TRUE)
                   ELSE UNCHANGED <<pub_pc, pub_msg, offered>>
    /\ UNCHANGED <<mqtt_queue_size, connected, terminating, pub_reg,
                   inflight, mqtt_events>>
    /\ UNCHANGED ghostVars
    /\ UNCHANGED lockVars
    /\ UNCHANGED runVars
    /\ UNCHANGED overrideVars
    /\ UNCHANGED settled
    /\ UNCHANGED <<cacheVars, queueVars, prodVars, l_metrics, l_repush,
                   l_metric, published, syncVars, connVars, entityVars,
                   discoVars, regVars, envVars>>

\* Lines 244-246: self._mqtt_queue_size > 0 and get_clock() < deadline.
KeepsWaiting(queue_size, seconds) ==
    queue_size > 0 /\ seconds < DisconnectDeadline

\* Lines 243-247: one more second of the wait for the in-flight messages.
CloseWait ==
    /\ lpc = "closing"
    /\ pub_pc["loop"] = "idle"
    /\ KeepsWaiting(mqtt_queue_size, close_waited)
    /\ close_waited' = close_waited + 1
    /\ UNCHANGED <<config, sleep_delay, waited, sync_scheduled, agent_uuid,
                   password, last_facts, transport, subscribed>>
    /\ UNCHANGED mqttVars
    /\ UNCHANGED ghostVars
    /\ UNCHANGED lockVars
    /\ UNCHANGED overrideVars
    /\ UNCHANGED settled
    /\ UNCHANGED <<cacheVars, queueVars, prodVars, loopVars, syncVars,
                   connVars, entityVars, discoVars, regVars, envVars>>

\* Lines 249-250: mqtt_client.disconnect() and loop_stop(); the network
\* thread is stopped and calls no callback any more.
Disconnect ==
    /\ lpc = "closing"
    /\ pub_pc["loop"] = "idle"
    /\ ~KeepsWaiting(mqtt_queue_size, close_waited)
    /\ transport' = "stopped"
    /\ subscribed' = FALSE
    /\ lpc' = "stopped"
    /\ UNCHANGED <<config, sleep_delay, waited, sync_scheduled, agent_uuid,
                   password, last_facts, close_waited>>
    /\ UNCHANGED mqttVars
    /\ UNCHANGED ghostVars
    /\ UNCHANGED lockVars
    /\ UNCHANGED overrideVars
    /\ UNCHANGED settled
    /\ UNCHANGED <<cacheVars, queueVars, prodVars, l_metrics, l_repush,
                   l_metric, published, syncVars, connVars, entityVars,
                   discoVars, regVars, envVars>>

(***************************************************************************)
(* _bleemeo_synchronize (scheduler thread): one pass, never re-entered.    *)
(* Every registry request is one step; its answer is chosen by the         *)
(* environment: "ok" (the expected status), "fail" (another status) or     *)
(* "exc" (a request error, raised through the pass).                       *)
(***************************************************************************)

\* One entry of the log of registry calls of the pass.
Call(op, kind, target, payload, outcome) ==
    [op |-> op, kind |-> kind, target |-> target, payload |-> payload,
     outcome |-> outcome]

\* Line 548: were containers discovered since they were last sent?
DiscoveryDue == last_discovery_sent < last_discovery_update

\* set(self.services_uuid) - set(self.core.services), line 634.
DeletedServicesFromState == DOMAIN services_uuid \ DOMAIN services

\* The pass leaves the full reconciliation (or skips it) and goes on at
\* line 548 with the containers, or at line 552 with the services.
EnterDiscovery ==
    IF DiscoveryDue
    THEN /\ spc' = "containers"
         /\ s_list' = docker_containers
         /\ s_todo' = DOMAIN docker_containers
    ELSE /\ spc' = "services"
         /\ s_list' = services
         /\ s_todo' = DOMAIN services

\* The passes counted since the last change: a pass counts when it starts
\* after the change and runs to its end.
PassStarts(passes) ==
    CASE passes = "changed" -> "in_first"
      [] passes = "one_pass" -> "in_second"
      [] OTHER -> passes

PassEnds(passes, ran_to_its_end) ==
    CASE passes = "in_first" ->
             IF ran_to_its_end THEN "one_pass" ELSE "changed"
      [] passes = "in_second" ->
             IF ran_to_its_end THEN "two_passes" ELSE "one_pass"
      [] OTHER -> passes

\* bleemeo_agent.util.get_clock() as the pass reads it at line 536: later
\* than the removals recorded before.
ClockNow ==
    IF clock \in {last_services_autoremove, last_containers_removed}
    THEN clock + 1
    ELSE clock

(***************************************************************************)
(* run(): check_config_requirement.                                         *)
(***************************************************************************)
\* Lines 190-191: config.get('bleemeo.account_id') is None or
\* config.get('bleemeo.registration_key') is None.
ConfigMissing == ~(ConfigKeys \subseteq config)

\* A delay that would double without end.
NextSleepDelayUncapped(delay) == delay * 2

\* Line 200: min(sleep_delay * 2, 600).
NextSleepDelay(delay) ==
    IF delay * 2 < SleepDelayMax THEN delay * 2 ELSE SleepDelayMax

\* Lines 190-200: a key is missing; the thread waits sleep_delay seconds,
\* is_terminating is not set at the end of the wait, the configuration is
\* reloaded and the delay doubled.
CheckConfigWait(reloaded) ==
    /\ boot = "run"
    /\ lpc = "config"
    /\ ConfigMissing
    /\ ~terminating
    /\ waited' = sleep_delay
    /\ config' = reloaded
    /\ sleep_delay' = NextSleepDelay(sleep_delay)
    /\ UNCHANGED <<sync_scheduled, agent_uuid, password, last_facts,
                   transport, subscribed, close_waited>>
    /\ UNCHANGED mqttVars
    /\ UNCHANGED ghostVars
    /\ UNCHANGED lockVars
    /\ UNCHANGED overrideVars
    /\ UNCHANGED settled
    /\ UNCHANGED <<cacheVars, queueVars, prodVars, loopVars, syncVars,
                   connVars, entityVars, discoVars, regVars, envVars>>

\* Lines 196-198 and 215-218: is_terminating is set during the wait;
\* StopIteration leaves check_config_requirement and run() returns.
CheckConfigStop ==
    /\ boot = "run"
    /\ lpc = "config"
    /\ ConfigMissing
    /\ terminating
    /\ waited' = sleep_delay
    /\ lpc' = "stopped"
    /\ UNCHANGED <<config, sleep_delay, sync_scheduled, agent_uuid, password,
                   last_facts, transport, subscribed,
                   close_waited>>
    /\ UNCHANGED mqttVars
    /\ UNCHANGED ghostVars
    /\ UNCHANGED lockVars
    /\ UNCHANGED overrideVars
    /\ UNCHANGED settled
    /\ UNCHANGED <<cacheVars, queueVars, prodVars, l_metrics, l_repush,
                   l_metric, published, syncVars, connVars, entityVars,
                   discoVars, regVars, envVars>>

\* Lines 190-191, 202-204 and 220-224: both keys are configured; the
\* password is generated once and the synchronization job is scheduled.
CheckConfigPass ==
    /\ boot = "run"
    /\ lpc = "config"
    /\ ~ConfigMissing
    /\ password' = IF password = None THEN Password ELSE password
    /\ sync_scheduled' = TRUE
    /\ lpc' = "wait"
    /\ UNCHANGED <<config, sleep_delay, waited, agent_uuid, last_facts,
                   transport, subscribed, close_waited>>
    /\ UNCHANGED mqttVars
    /\ UNCHANGED ghostVars
    /\ UNCHANGED lockVars
    /\ UNCHANGED overrideVars
    /\ UNCHANGED settled
    /\ UNCHANGED <<cacheVars, queueVars, prodVars, l_metrics, l_repush,
                   l_metric, published, syncVars, connVars, entityVars,
                   discoVars, regVars, envVars>>

(***************************************************************************)
(* register, called by _bleemeo_synchronize while the agent has no         *)
(* identifier (lines 531-535).                                             *)
(***************************************************************************)
\* The answers to POST /v1/agent/: 201 with an id, 201 with a JSON object
\* without id, another status, a RequestException, 201 with a body that is
\* no JSON.
RegisterAnswers == {"created", "no_id", "refused", "error", "not_json"}

\* A register that would take any answer for a registration.
GotIdAlways(outcome) == TRUE

\* Lines 513-515: content is not None and 'id' in content.
GotId(outcome) == outcome = "created"

\* Lines 531-535 with register, lines 472-526: without the fact fqdn no
\* request is made; otherwise one POST, whose id is stored when the answer
\* holds one.  Without identifier the pass returns at line 535.
Register(outcome) ==
    /\ boot = "run"
    /\ sync_scheduled
    /\ spc = "idle"
    /\ agent_uuid = None
    /\ IF ~last_facts
       THEN /\ calls' = <<>>
            /\ UNCHANGED <<spc, agent_uuid>>
       ELSE /\ calls' = <<Call("POST", "agent", None,
                               [initial_password |-> password], outcome)>>
            /\ IF GotId(outcome)
               THEN agent_uuid' = AgentUuid /\ spc' = "registered"
               ELSE UNCHANGED <<spc, agent_uuid>>
    /\ UNCHANGED <<config, sleep_delay, waited, sync_scheduled, password,
                   last_facts, transport, subscribed,
                   close_waited>>
    /\ UNCHANGED mqttVars
    /\ UNCHANGED ghostVars
    /\ UNCHANGED lockVars
    /\ UNCHANGED overrideVars
    /\ UNCHANGED settled
    /\ UNCHANGED <<s_now, s_todo, s_list, s_key, s_payload, s_data>>
    /\ UNCHANGED <<cacheVars, queueVars, prodVars, loopVars, connVars,
                   entityVars, discoVars, regVars, envVars>>

\* _bleemeo_synchronize, lines 536-540: the agent holds an identifier, from
\* an earlier pass or from the registration this pass has just made.
SyncStart ==
    /\ boot = "run"
    /\ sync_scheduled
    /\ \/ spc = "idle" /\ agent_uuid # None
       \/ spc = "registered"
    /\ clock' = ClockNow
    /\ s_now' = ClockNow
    /\ calls' = IF spc = "registered" THEN calls ELSE <<>>
    /\ IF ClockNow - last_update > FullSyncDelay
          \/ last_services_autoremove >= last_update
          \/ last_containers_removed >= last_update
       THEN spc' = "agent" /\ UNCHANGED <<s_todo, s_list>>
       ELSE EnterDiscovery
    /\ UNCHANGED mqttVars
    /\ resync_pending' = FALSE
    /\ UNCHANGED callback_error
    /\ UNCHANGED lockVars
    /\ UNCHANGED runVars
    /\ UNCHANGED overrideVars
    /\ settled' = PassStarts(settled)
    /\ UNCHANGED <<s_key, s_payload, s_data, cacheVars,
                   queueVars, prodVars, loopVars, connVars, entityVars,
                   discoVars, regVars, env_events, boot, created>>

\* An exception raised by a request ends the pass where it is.
AbortPass(call) ==
    /\ spc' = "done"
    /\ calls' = Append(calls, call)
    /\ UNCHANGED <<s_now, s_todo, s_list, s_key, s_payload, s_data>>

\* get_agent_api and line 543: the alerting mode comes from the registry.
GetAgentApi(outcome, mode) ==
    /\ spc = "agent"
    /\ LET call == Call("GET", "agent", None, None, outcome) IN
       IF outcome = "exc"
       THEN AbortPass(call) /\ UNCHANGED alerting_mode
       ELSE /\ alerting_mode' = IF outcome = "ok" THEN mode ELSE alerting_mode
            /\ spc' = "purge"
            /\ s_todo' = DeletedServicesFromState
            /\ calls' = Append(calls, call)
            /\ UNCHANGED <<s_now, s_list, s_key, s_payload, s_data>>
    /\ UNCHANGED mqttVars
    /\ UNCHANGED ghostVars
    /\ UNCHANGED lockVars
    /\ UNCHANGED runVars
    /\ UNCHANGED overrideVars
    /\ UNCHANGED settled
    /\ UNCHANGED <<cacheVars, queueVars, prodVars, loopVars, last_update,
                   last_discovery_sent, last_containers_removed, entityVars,
                   discoVars, regVars, envVars>>

\* The status of the answer to a delete call: 204, 404 when the registry
\* does not hold the entity, 500 when it refuses.
DeleteStatus(held, outcome) ==
    IF outcome # "ok" THEN 500 ELSE IF held THEN 204 ELSE 404

\* A test that would take 404 for a failure.
DeletedOnly204(status) == status = 204

\* Line 646: response.status_code in (204, 404).
Deleted(status) == status \in {204, 404}

\* _purge_deleted_services, lines 637-655: delete on the registry a service
\* that is cached but no longer discovered; 204 and 404 remove the entry.
PurgeDeleteService(key, outcome) ==
    /\ spc = "purge"
    /\ key \in s_todo
    /\ LET service_uuid == services_uuid[key].uuid
           call == Call("DELETE", "service", service_uuid, None, outcome)
       IN
       IF outcome = "exc"
       THEN AbortPass(call) /\ UNCHANGED <<entityVars, regVars>>
       ELSE /\ calls' = Append(calls, call)
            /\ s_todo' = s_todo \ {key}
            /\ UNCHANGED <<spc, s_now, s_list, s_key, s_payload, s_data>>
            /\ IF Deleted(DeleteStatus(service_uuid \in remote_services,
                                       outcome))
               THEN /\ remote_services' = remote_services \ {service_uuid}
                    /\ services_uuid' = DictDel(services_uuid, key)
                    /\ state_services_uuid' = services_uuid'
                    /\ UNCHANGED <<container_uuid, remote_metrics,
                                   remote_containers, next_id>>
               ELSE UNCHANGED <<entityVars, regVars>>
    /\ UNCHANGED mqttVars
    /\ UNCHANGED ghostVars
    /\ UNCHANGED lockVars
    /\ UNCHANGED runVars
    /\ UNCHANGED overrideVars
    /\ UNCHANGED settled
    /\ UNCHANGED <<cacheVars, queueVars, prodVars, loopVars, connVars,
                   discoVars, envVars>>

\* The cached services whose identifier is not in the fetched list.
DeletedServices(services_registred) ==
    {key \in DOMAIN services_uuid :
        services_uuid[key].uuid \notin services_registred}

\* _purge_deleted_services, lines 657-686: fetch the list of services, drop
\* the cached entries the registry no longer has, persist, and tell the
\* discovery (core.update_discovery), which forgets them; the discovery may
\* find a still running one again at once ("kept").
PurgeFetchServices(outcome, kept) ==
    /\ spc = "purge"
    /\ s_todo = {}
    /\ LET call == Call("GET", "service", None, None, outcome)
           deleted_services == DeletedServices(remote_services)
       IN
       IF outcome = "exc"
       THEN AbortPass(call) /\ UNCHANGED <<entityVars, discoVars>>
       ELSE /\ kept \subseteq (deleted_services \cap DOMAIN services)
            /\ calls' = Append(calls, call)
            /\ spc' = "thr"
            /\ UNCHANGED <<s_now, s_todo, s_list, s_key, s_payload, s_data>>
            /\ services_uuid' =
                   [key \in DOMAIN services_uuid \ deleted_services |->
                       services_uuid[key]]
            /\ state_services_uuid' = services_uuid'
            /\ services' =
                   [key \in DOMAIN services \ (deleted_services \ kept) |->
                       services[key]]
            /\ last_discovery_update' =
                   IF services' # services THEN clock
                   ELSE last_discovery_update
            /\ UNCHANGED <<container_uuid, docker_containers,
                           last_services_autoremove>>
    /\ UNCHANGED mqttVars
    /\ UNCHANGED ghostVars
    /\ UNCHANGED lockVars
    /\ UNCHANGED runVars
    /\ UNCHANGED overrideVars
    /\ UNCHANGED settled
    /\ UNCHANGED <<cacheVars, queueVars, prodVars, loopVars, connVars,
                   regVars, envVars>>

(***************************************************************************)
(* _retrive_threshold.                                                     *)
(***************************************************************************)
\* The rows of the metric list: the registry reports a last_status for the
\* metrics of with_status.
MetricRows(with_status) ==
    {[id |-> id, label |-> remote_metrics[id].label,
      item |-> remote_metrics[id].item, has_status |-> id \in with_status] :
        id \in DOMAIN remote_metrics}

\* Lines 576-578: the rows whose metric is not to be sent (alerting mode).
UnsentRows(rows) ==
    {r \in rows : ~SentMetric(r.label, r.has_status)}

\* Lines 592-595: the API uses "" for no item, the agent None.
AgentItem(item) == IF item = "" THEN None ELSE item

\* Lines 597-602: the thresholds of the rows kept.
ThresholdsOf(rows) == {<<r.label, AgentItem(r.item)>> : r \in rows}

\* A full reconciliation that would not stamp its time.
FinishFullNoStamp ==
    /\ UNCHANGED last_update
    /\ EnterDiscovery

\* Line 546 and the rest of the pass.
FinishFull ==
    /\ last_update' = s_now
    /\ EnterDiscovery

\* Lines 568-576: list(metrics) drains every page of the metric list.
RetriveFetch(outcome, with_status) ==
    /\ spc = "thr"
    /\ LET call == Call("GET", "metric", None, None, outcome)
           rows == MetricRows(with_status)
       IN
       IF outcome = "exc"
       THEN AbortPass(call)
       ELSE /\ calls' = Append(calls, call)
            /\ s_data' = rows
            /\ s_todo' = {r.id : r \in UnsentRows(rows)}
            /\ spc' = "thr_del"
            /\ UNCHANGED <<s_now, s_list, s_key, s_payload>>
    /\ UNCHANGED mqttVars
    /\ UNCHANGED ghostVars
    /\ UNCHANGED lockVars
    /\ UNCHANGED runVars
    /\ UNCHANGED overrideVars
    /\ UNCHANGED settled
    /\ UNCHANGED <<cacheVars, queueVars, prodVars, loopVars, connVars,
                   entityVars, discoVars, regVars, envVars>>

\* Lines 579-590: in alerting mode a metric that is not sent is deleted on
\* the registry; any answer but 204 ends _retrive_threshold (return).
RetriveDelete(id, outcome) ==
    /\ spc = "thr_del"
    /\ id \in s_todo
    /\ LET deleted == outcome = "ok" /\ id \in DOMAIN remote_metrics
           call == Call("DELETE", "metric", id, None,
                        IF deleted THEN "ok" ELSE
                        IF outcome = "exc" THEN "exc" ELSE "fail")
       IN
       IF outcome = "exc"
       THEN AbortPass(call) /\ UNCHANGED <<regVars, last_update>>
       ELSE /\ calls' = Append(calls, call)
            /\ UNCHANGED <<s_now, s_key, s_payload, s_data>>
            /\ IF deleted
               THEN /\ remote_metrics' = DictDel(remote_metrics, id)
                    /\ s_todo' = s_todo \ {id}
                    /\ UNCHANGED <<spc, s_list, last_update,
                                   remote_services, remote_containers,
                                   next_id>>
               ELSE FinishFull /\ UNCHANGED regVars
    /\ UNCHANGED mqttVars
    /\ UNCHANGED ghostVars
    /\ UNCHANGED lockVars
    /\ UNCHANGED runVars
    /\ UNCHANGED overrideVars
    /\ UNCHANGED settled
    /\ UNCHANGED <<cacheVars, queueVars, prodVars, loopVars, alerting_mode,
                   last_discovery_sent, last_containers_removed, entityVars,
                   discoVars, envVars>>

\* A threshold refresh that would keep every cached metric.
DeletedMetricsNone(metrics_registered) == {}

\* Lines 607-616: the cached metrics whose identifier is not registered.
DeletedMetrics(metrics_registered) ==
    {key \in DOMAIN metrics_uuid :
        /\ metrics_uuid[key] # None
        /\ metrics_uuid[key] \notin metrics_registered}

\* Lines 604-624: store the thresholds and, under metrics_lock, remove from
\* the cache the metrics the registry no longer has; persist if any.
RetrivePurge ==
    /\ spc = "thr_del"
    /\ metrics_lock = "sync"
    /\ s_todo = {}
    /\ LET kept == s_data \ UnsentRows(s_data)
           metrics_registered == {r.id : r \in kept}
           deleted_metrics == DeletedMetrics(metrics_registered)
       IN
       /\ thresholds' = ThresholdsOf(kept)
       /\ metrics_uuid' =
              [key \in DOMAIN metrics_uuid \ deleted_metrics |->
                  metrics_uuid[key]]
       /\ state_metrics_uuid' =
              IF deleted_metrics # {} THEN metrics_uuid'
              ELSE state_metrics_uuid
    /\ FinishFull
    /\ UNCHANGED mqttVars
    /\ UNCHANGED ghostVars
    /\ metrics_lock' = Release(metrics_lock)
    /\ UNCHANGED s_answer
    /\ UNCHANGED runVars
    /\ UNCHANGED overrideVars
    /\ UNCHANGED settled
    /\ UNCHANGED <<metrics_info, s_now, s_key, s_payload, s_data, calls,
                   queueVars, prodVars, loopVars, alerting_mode,
                   last_discovery_sent, last_containers_removed, entityVars,
                   discoVars, regVars, envVars>>

(***************************************************************************)
(* _register_containers.                                                   *)
(***************************************************************************)
\* hashlib.sha1(json.dumps(inspect, sort_keys=True)): one hash per document.
InspectHash(inspect) ==
    CASE inspect = "I1" -> "H1"
      [] inspect = "I2" -> "H2"

\* A lookup that would find no container registered.
ContainerEntryNone(name) == <<None, None>>

\* container_uuid.get(name, (None, None))
ContainerEntry(name) ==
    IF name \in DOMAIN container_uuid THEN container_uuid[name]
    ELSE <<None, None>>

\* Can the registry still hand out an identifier?
CanCreate == next_id <= Len(Uuids)

\* Lines 887-949: one container of the loop.  An unchanged hash sends
\* nothing; otherwise POST without identifier, PUT with one; on 200 or 201
\* the (hash, identifier) pair is stored in the state.
RegisterContainer(name, outcome) ==
    /\ spc = "containers"
    /\ name \in s_todo
    /\ LET new_hash == InspectHash(s_list[name])
           old_hash == ContainerEntry(name)[1]
           obj_uuid == ContainerEntry(name)[2]
           method == IF obj_uuid = None THEN "POST" ELSE "PUT"
           accepted == /\ outcome = "ok"
                       /\ IF method = "POST" THEN CanCreate
                          ELSE obj_uuid \in remote_containers
           answer == IF accepted THEN "ok" ELSE
                     IF outcome = "exc" THEN "exc" ELSE "fail"
           new_uuid == IF method = "POST" THEN Uuids[next_id] ELSE obj_uuid
           call == Call(method, "container", IF method = "POST" THEN name
                                             ELSE obj_uuid, new_hash, answer)
       IN
       IF old_hash = new_hash
       THEN /\ s_todo' = s_todo \ {name}
            /\ UNCHANGED <<spc, s_now, s_list, s_key, s_payload, s_data,
                           calls, entityVars, regVars>>
       ELSE IF outcome = "exc"
       THEN AbortPass(call) /\ UNCHANGED <<entityVars, regVars>>
       ELSE /\ calls' = Append(calls, call)
            /\ s_todo' = s_todo \ {name}
            /\ UNCHANGED <<spc, s_now, s_list, s_key, s_payload, s_data>>
            /\ IF accepted
               THEN /\ container_uuid' =
                           DictSet(container_uuid, name, <<new_hash, new_uuid>>)
                    /\ remote_containers' = remote_containers \cup {new_uuid}
                    /\ next_id' = IF method = "POST" THEN next_id + 1
                                  ELSE next_id
                    /\ UNCHANGED <<services_uuid, state_services_uuid,
                                   remote_metrics, remote_services>>
               ELSE UNCHANGED <<entityVars, regVars>>
    /\ UNCHANGED mqttVars
    /\ UNCHANGED ghostVars
    /\ UNCHANGED lockVars
    /\ UNCHANGED runVars
    /\ UNCHANGED overrideVars
    /\ UNCHANGED settled
    /\ UNCHANGED <<cacheVars, queueVars, prodVars, loopVars, connVars,
                   discoVars, envVars>>

\* Lines 951-953: the cached containers that are no longer discovered.
ContainersEnd ==
    /\ spc = "containers"
    /\ s_todo = {}
    /\ spc' = "containers_del"
    /\ s_todo' = DOMAIN container_uuid \ DOMAIN docker_containers
    /\ UNCHANGED mqttVars
    /\ UNCHANGED ghostVars
    /\ UNCHANGED lockVars
    /\ UNCHANGED runVars
    /\ UNCHANGED overrideVars
    /\ UNCHANGED settled
    /\ UNCHANGED <<s_now, s_list, s_key, s_payload, s_data,
                   calls, cacheVars, queueVars, prodVars, loopVars, connVars,
                   entityVars, discoVars, regVars, envVars>>

\* Lines 954-972: delete on the registry a container that is gone; 204 and
\* 404 remove it from the state and record the time of the removal.
DeleteContainer(name, outcome) ==
    /\ spc = "containers_del"
    /\ name \in s_todo
    /\ LET obj_uuid == container_uuid[name][2]
           call == Call("DELETE", "container", obj_uuid, None, outcome)
       IN
       IF outcome = "exc"
       THEN AbortPass(call)
            /\ UNCHANGED <<entityVars, regVars, last_containers_removed>>
       ELSE /\ calls' = Append(calls, call)
            /\ s_todo' = s_todo \ {name}
            /\ UNCHANGED <<spc, s_now, s_list, s_key, s_payload, s_data>>
            /\ IF outcome = "ok"
               THEN /\ remote_containers' = remote_containers \ {obj_uuid}
                    /\ container_uuid' = DictDel(container_uuid, name)
                    /\ last_containers_removed' = clock
                    /\ UNCHANGED <<services_uuid, state_services_uuid,
                                   remote_metrics, remote_services, next_id>>
               ELSE UNCHANGED <<entityVars, regVars,
                                last_containers_removed>>
    /\ UNCHANGED mqttVars
    /\ UNCHANGED ghostVars
    /\ UNCHANGED lockVars
    /\ UNCHANGED runVars
    /\ UNCHANGED overrideVars
    /\ UNCHANGED settled
    /\ UNCHANGED <<cacheVars, queueVars, prodVars, loopVars, alerting_mode,
                   last_update, last_discovery_sent, discoVars, envVars>>

\* Lines 550-552: the discovery is sent; the services come next.
ContainersDelEnd ==
    /\ spc = "containers_del"
    /\ s_todo = {}
    /\ last_discovery_sent' = s_now
    /\ spc' = "services"
    /\ s_list' = services
    /\ s_todo' = DOMAIN services
    /\ UNCHANGED mqttVars
    /\ UNCHANGED ghostVars
    /\ UNCHANGED lockVars
    /\ UNCHANGED runVars
    /\ UNCHANGED overrideVars
    /\ UNCHANGED settled
    /\ UNCHANGED <<s_now, s_key, s_payload, s_data, calls,
                   cacheVars, queueVars, prodVars, loopVars, alerting_mode,
                   last_update, last_containers_removed, entityVars,
                   discoVars, regVars, envVars>>

(***************************************************************************)
(* _register_services.                                                     *)
(***************************************************************************)
\* get_listen_addresses: "address:port/proto" of the service, as a tuple;
\* the empty string (no port, or a protocol that is neither TCP nor UDP)
\* is <<>>.  The service_info of the model carries no extra_ports.
GetListenAddresses(service_info) ==
    IF service_info.port # None /\ service_info.protocol \in {"tcp", "udp"}
    THEN <<service_info.address, service_info.port, service_info.protocol>>
    ELSE <<>>

\* Lines 699-706: the entry built from the discovered service.
ServiceEntry(key, service_info) ==
    LET entry == [listen_addresses |-> GetListenAddresses(service_info),
                  label |-> key[1],
                  exe_path |-> service_info.exe_path]
    IN IF key[2] # None THEN ("instance" :> key[2]) @@ entry ELSE entry

\* A test that would take every cached service for up to date.
ServiceCached(key, service_info) == key \in DOMAIN services_uuid

\* Lines 708-712: nothing is sent for a cached service whose entry is equal.
ServiceUpToDate(key, service_info) ==
    /\ key \in DOMAIN services_uuid
    /\ services_uuid[key] =
           ("uuid" :> services_uuid[key].uuid)
               @@ ServiceEntry(key, service_info)

\* Lines 696-747: one service of the loop.  POST (201) when it is not
\* cached, PUT (200) on its identifier when its entry changed; on the
\* expected status the entry is cached with the identifier of the answer
\* and persisted, on another status the loop goes on.
RegisterService(key, outcome) ==
    /\ spc = "services"
    /\ key \in s_todo
    /\ LET entry == ServiceEntry(key, s_list[key])
           cached == key \in DOMAIN services_uuid
           method == IF cached THEN "PUT" ELSE "POST"
           service_uuid == IF cached THEN services_uuid[key].uuid ELSE None
           accepted == /\ outcome = "ok"
                       /\ IF cached THEN service_uuid \in remote_services
                          ELSE CanCreate
           answer == IF accepted THEN "ok" ELSE
                     IF outcome = "exc" THEN "exc" ELSE "fail"
           new_uuid == IF cached THEN service_uuid ELSE Uuids[next_id]
           call == Call(method, "service", IF cached THEN service_uuid
                                           ELSE key, entry, answer)
       IN
       IF ServiceUpToDate(key, s_list[key])
       THEN /\ s_todo' = s_todo \ {key}
            /\ UNCHANGED <<spc, s_now, s_list, s_key, s_payload, s_data,
                           calls, entityVars, regVars>>
       ELSE IF outcome = "exc"
       THEN AbortPass(call) /\ UNCHANGED <<entityVars, regVars>>
       ELSE /\ calls' = Append(calls, call)
            /\ s_todo' = s_todo \ {key}
            /\ UNCHANGED <<spc, s_now, s_list, s_key, s_payload, s_data>>
            /\ IF accepted
               THEN /\ services_uuid' =
                           DictSet(services_uuid, key,
                                   ("uuid" :> new_uuid) @@ entry)
                    /\ state_services_uuid' = services_uuid'
                    /\ remote_services' = remote_services \cup {new_uuid}
                    /\ next_id' = IF cached THEN next_id ELSE next_id + 1
                    /\ UNCHANGED <<container_uuid, remote_metrics,
                                   remote_containers>>
               ELSE UNCHANGED <<entityVars, regVars>>
    /\ UNCHANGED mqttVars
    /\ UNCHANGED ghostVars
    /\ UNCHANGED lockVars
    /\ UNCHANGED runVars
    /\ UNCHANGED overrideVars
    /\ UNCHANGED settled
    /\ UNCHANGED <<cacheVars, queueVars, prodVars, loopVars, connVars,
                   discoVars, envVars>>

(***************************************************************************)
(* _register_metric.                                                       *)
(***************************************************************************)
\* A resolver that would visit every entry of the snapshot.
UnresolvedOrNot(list_metrics) == DOMAIN list_metrics

\* The unresolved entries of a snapshot of the cache (lines 762-764).
Unresolved(list_metrics) ==
    {key \in DOMAIN list_metrics : list_metrics[key] = None}

\* Lines 759-760: list(self.metrics_uuid.items()) under metrics_lock, after
\* the loop over the services has ended.
RegisterMetricStart ==
    /\ spc = "services"
    /\ metrics_lock = "sync"
    /\ s_todo = {}
    /\ s_list' = metrics_uuid
    /\ s_todo' = Unresolved(metrics_uuid)
    /\ spc' = "metrics"
    /\ UNCHANGED mqttVars
    /\ UNCHANGED ghostVars
    /\ metrics_lock' = Release(metrics_lock)
    /\ UNCHANGED s_answer
    /\ UNCHANGED runVars
    /\ UNCHANGED overrideVars
    /\ UNCHANGED settled
    /\ UNCHANGED <<s_now, s_key, s_payload, s_data, calls,
                   cacheVars, queueVars, prodVars, loopVars, connVars,
                   entityVars, discoVars, regVars, envVars>>

\* (status_of, service, item): the identity of the metric a status is of.
FromMetricKey(metric_key) ==
    <<metrics_info[metric_key].status_of, metric_key[2], metric_key[3]>>

\* The identity of the service of a metric: (service, instance).
ServiceKeyOf(metric_key) ==
    <<metric_key[2], metrics_info[metric_key].instance>>

\* A resolver that would not look at the identifier of the parent.
ResolveVerdictNoParent(metric_key) ==
    IF metric_key \notin DOMAIN metrics_info THEN "stale"
    ELSE LET info == metrics_info[metric_key] IN
    IF /\ info.container # None
       /\ info.container \notin DOMAIN docker_containers
    THEN "container_gone"
    ELSE IF /\ info.container # None
            /\ \/ info.container \notin DOMAIN container_uuid
               \/ container_uuid[info.container][2] = None
    THEN "container_unregistered"
    ELSE IF /\ info.status_of # None
            /\ FromMetricKey(metric_key) \notin DOMAIN metrics_uuid
    THEN "parent_deleted"
    ELSE IF /\ metric_key[2] # None
            /\ ServiceKeyOf(metric_key) \notin DOMAIN services_uuid
    THEN "key_error"
    ELSE "post"

\* Lines 770-837, under metrics_lock: what the resolver decides for an
\* unresolved metric of the snapshot.
ResolveVerdict(metric_key) ==
    IF metric_key \notin DOMAIN metrics_info THEN "stale"
    ELSE LET info == metrics_info[metric_key] IN
    IF /\ info.status_of # None
       /\ FromMetricKey(metric_key) \notin DOMAIN metrics_uuid
    THEN "parent_deleted"
    ELSE IF /\ info.status_of # None
            /\ metrics_uuid[FromMetricKey(metric_key)] = None
    THEN "parent_unresolved"
    ELSE IF /\ info.container # None
            /\ info.container \notin DOMAIN docker_containers
    THEN "container_gone"
    ELSE IF /\ info.container # None
            /\ \/ info.container \notin DOMAIN container_uuid
               \/ container_uuid[info.container][2] = None
    THEN "container_unregistered"
    ELSE IF /\ metric_key[2] # None
            /\ ServiceKeyOf(metric_key) \notin DOMAIN services_uuid
    THEN "key_error"
    ELSE "post"

\* A payload that would name the agent and the label only.
MetricPayloadBare(metric_key) ==
    [agent |-> AgentUuid, label |-> metric_key[1]]

\* Lines 788-837: the payload of the create call.
MetricPayload(metric_key) ==
    LET info == metrics_info[metric_key]
        base == [agent |-> AgentUuid, label |-> metric_key[1]]
        p1 == IF info.status_of # None
              THEN ("status_of" :> metrics_uuid[FromMetricKey(metric_key)])
                   @@ base
              ELSE base
        p2 == IF info.container # None
              THEN ("container" :> container_uuid[info.container][2]) @@ p1
              ELSE p1
        p3 == IF metric_key[3] # None
              THEN ("item" :> metric_key[3]) @@ p2
              ELSE p2
    IN IF metric_key[2] # None
       THEN ("service" :> services_uuid[ServiceKeyOf(metric_key)].uuid) @@ p3
       ELSE p3

\* Lines 762-837: one unresolved metric of the snapshot, under the lock.
\* A stale entry, a status of a deleted metric and a metric of a removed
\* container are purged and the purge persisted; a metric whose parent or
\* container is not registered yet is skipped; a metric of a service that
\* is not cached raises KeyError through the pass; otherwise the payload is
\* built and the lock released.
RegisterMetricPrepare(metric_key) ==
    /\ spc = "metrics"
    /\ metrics_lock = "sync"
    /\ metric_key \in s_todo
    /\ LET verdict == ResolveVerdict(metric_key) IN
       /\ metrics_uuid' =
              IF verdict \in {"stale", "parent_deleted", "container_gone"}
              THEN DictDel(metrics_uuid, metric_key)
              ELSE metrics_uuid
       /\ metrics_info' =
              IF verdict \in {"parent_deleted", "container_gone"}
              THEN DictDel(metrics_info, metric_key)
              ELSE metrics_info
       /\ state_metrics_uuid' =
              IF verdict \in {"stale", "parent_deleted", "container_gone"}
              THEN metrics_uuid'
              ELSE state_metrics_uuid
       /\ spc' = CASE verdict = "post" -> "metric_post"
                   [] verdict = "key_error" -> "done"
                   [] OTHER -> "metrics"
       /\ s_key' = IF verdict = "post" THEN metric_key ELSE s_key
       /\ s_payload' = IF verdict = "post" THEN MetricPayload(metric_key)
                       ELSE s_payload
       /\ s_todo' = IF verdict = "key_error" THEN s_todo
                     ELSE s_todo \ {metric_key}
    /\ UNCHANGED mqttVars
    /\ UNCHANGED ghostVars
    /\ metrics_lock' = Release(metrics_lock)
    /\ UNCHANGED s_answer
    /\ UNCHANGED runVars
    /\ UNCHANGED overrideVars
    /\ UNCHANGED settled
    /\ UNCHANGED <<thresholds, s_now, s_list, s_data, calls,
                   queueVars, prodVars, loopVars, connVars, entityVars,
                   discoVars, regVars, envVars>>

\* The row the registry keeps for a created metric ("" for no item).
RemoteMetric(payload) ==
    [label |-> payload.label,
     item |-> IF "item" \in DOMAIN payload THEN payload.item ELSE ""]

\* What _register_metric does when the create call is not answered 201:
\* it returns, leaving the metrics it has not visited for a later pass.
AfterCreateFailure == "done"

\* Lines 841-856: the create call, outside the lock.  On 201 the answer is
\* kept for the locked section that follows; on another status the
\* function returns.
RegisterMetricPost(outcome) ==
    /\ spc = "metric_post"
    /\ LET accepted == outcome = "ok" /\ CanCreate
           answer == IF accepted THEN "ok" ELSE
                     IF outcome = "exc" THEN "exc" ELSE "fail"
           call == Call("POST", "metric", s_key, s_payload, answer)
           id == Uuids[next_id]
       IN
       IF outcome = "exc"
       THEN /\ AbortPass(call)
            /\ UNCHANGED <<cacheVars, regVars, created, s_answer>>
       ELSE /\ calls' = Append(calls, call)
            /\ UNCHANGED <<s_now, s_todo, s_list, s_key, s_payload, s_data>>
            /\ IF accepted
               THEN /\ spc' = "metric_store"
                    /\ s_answer' = id
                    /\ remote_metrics' =
                           DictSet(remote_metrics, id, RemoteMetric(s_payload))
                    /\ next_id' = next_id + 1
                    /\ created' = created \cup {<<s_key, id>>}
                    /\ UNCHANGED <<cacheVars, remote_services,
                                   remote_containers>>
               ELSE /\ spc' = AfterCreateFailure
                    /\ UNCHANGED <<cacheVars, regVars, created, s_answer>>
    /\ UNCHANGED mqttVars
    /\ UNCHANGED ghostVars
    /\ UNCHANGED metrics_lock
    /\ UNCHANGED runVars
    /\ UNCHANGED overrideVars
    /\ UNCHANGED settled
    /\ UNCHANGED <<queueVars, prodVars, loopVars, connVars, entityVars,
                   discoVars, clock, env_events, boot>>

\* Lines 858-877, under metrics_lock: the identifier and the thresholds of
\* the answer are stored and persisted.
RegisterMetricStore ==
    /\ spc = "metric_store"
    /\ metrics_lock = "sync"
    /\ metrics_uuid' = DictSet(metrics_uuid, s_key, s_answer)
    /\ state_metrics_uuid' = metrics_uuid'
    /\ thresholds' = thresholds \cup {<<s_key[1], s_key[3]>>}
    /\ spc' = "metrics"
    /\ s_answer' = None
    /\ metrics_lock' = Release(metrics_lock)
    /\ UNCHANGED mqttVars
    /\ UNCHANGED ghostVars
    /\ UNCHANGED runVars
    /\ UNCHANGED overrideVars
    /\ UNCHANGED settled
    /\ UNCHANGED <<metrics_info, s_now, s_todo, s_list, s_key, s_payload,
                   s_data, calls, queueVars, prodVars, loopVars, connVars,
                   entityVars, discoVars, regVars, envVars>>

\* The loop over the snapshot has ended.
RegisterMetricEnd ==
    /\ spc = "metrics"
    /\ s_todo = {}
    /\ spc' = "done"
    /\ UNCHANGED mqttVars
    /\ UNCHANGED ghostVars
    /\ UNCHANGED lockVars
    /\ UNCHANGED runVars
    /\ UNCHANGED overrideVars
    /\ UNCHANGED settled
    /\ UNCHANGED <<s_now, s_todo, s_list, s_key, s_payload, s_data, calls,
                   cacheVars, queueVars, prodVars, loopVars, connVars,
                   entityVars, discoVars, regVars, envVars>>

\* Did the pass run to its end, every request answered with success?
PassRanToItsEnd ==
    /\ s_todo = {}
    /\ \A i \in 1..Len(calls) : calls[i].outcome = "ok"

\* The pass returns; the scheduler starts the next one later.
SyncDone ==
    /\ spc = "done"
    /\ spc' = "idle"
    /\ s_todo' = {}
    /\ s_list' = EmptyDict
    /\ s_key' = NoKey
    /\ s_payload' = NoPayload
    /\ s_data' = {}
    /\ calls' = <<>>
    /\ UNCHANGED mqttVars
    /\ UNCHANGED ghostVars
    /\ UNCHANGED lockVars
    /\ UNCHANGED runVars
    /\ UNCHANGED overrideVars
    /\ settled' = PassEnds(settled, PassRanToItsEnd)
    /\ UNCHANGED <<s_now, cacheVars, queueVars, prodVars, loopVars, connVars,
                   entityVars, discoVars, regVars, envVars>>

(***************************************************************************)
(* __init__ and _apply_upgrade.                                            *)
(***************************************************************************)
\* The keys _apply_upgrade moves (PRODUCT-279).
UpgradedKeys(d) ==
    {key \in DOMAIN d :
        key[1] = "elasticsearch_search_time" /\ key[2] = None}

\* new_key = (metric_name, 'elasticsearch', item)
UpgradedKey(key) == <<key[1], "elasticsearch", key[3]>>

\* _apply_upgrade on the dict d: every old key is deleted, and its value is
\* stored under the new key unless the new key is already there
\* (setdefault).
Upgraded(d) ==
    LET old == UpgradedKeys(d)
        new == {UpgradedKey(key) : key \in old}
    IN [key \in (DOMAIN d \ old) \cup new |->
           IF key \in DOMAIN d THEN d[key]
           ELSE d[<<key[1], None, key[3]>>]]

\* _apply_upgrade, lines 252-267, the last step of __init__; the threads
\* start after it.
ApplyUpgrade ==
    /\ boot = "init"
    /\ boot' = "run"
    /\ metrics_uuid' = Upgraded(metrics_uuid)
    /\ state_metrics_uuid' =
           IF UpgradedKeys(metrics_uuid) # {} THEN metrics_uuid'
           ELSE state_metrics_uuid
    /\ UNCHANGED mqttVars
    /\ UNCHANGED ghostVars
    /\ UNCHANGED lockVars
    /\ UNCHANGED runVars
    /\ UNCHANGED overrideVars
    /\ UNCHANGED settled
    /\ UNCHANGED <<metrics_info, thresholds, queueVars, prodVars, loopVars,
                   syncVars, connVars, entityVars, discoVars, regVars,
                   clock, env_events, created>>

(***************************************************************************)
(* on_message (MQTT thread).                                               *)
(***************************************************************************)
NotifyTopic == <<"v1/agent", AgentUuid, "notification">>

\* A control message: its topic, whether its payload is shorter than
\* 64 KiB, and what json.loads makes of the payload: "malformed" when it
\* raises, "scalar" for null, a number or a boolean, "no_type" for an
\* object without message_type, else the message_type of the object.
Message(topic, small, body) == [topic |-> topic, small |-> small, body |-> body]

ResyncMessage == Message(NotifyTopic, TRUE, "resync")

\* Lines 170-179: what on_message does with a message.  `'message_type' not
\* in body` raises TypeError on a body that is no container.
MessageVerdict(msg) ==
    IF ~(msg.topic = NotifyTopic /\ msg.small) THEN "ignore"
    ELSE IF msg.body = "malformed" THEN "ignore"
    ELSE IF msg.body = "scalar" THEN "raise"
    ELSE IF msg.body = "no_type" THEN "ignore"
    ELSE IF msg.body = "resync" THEN "resync"
    ELSE "ignore"

\* on_message, lines 168-181: a resync on the notification topic resets
\* _last_update.
OnMessage(msg) ==
    /\ boot = "run"
    /\ mqtt_events < MaxMqttEvents
    /\ mqtt_events' = mqtt_events + 1
    /\ last_update' = IF MessageVerdict(msg) = "resync" THEN 0
                      ELSE last_update
    /\ resync_pending' = IF MessageVerdict(msg) = "resync" THEN TRUE
                         ELSE resync_pending
    /\ callback_error' = IF MessageVerdict(msg) = "raise" THEN TRUE
                         ELSE callback_error
    /\ UNCHANGED <<mqtt_queue_size, connected, terminating, pub_pc, pub_reg,
                   pub_msg, inflight, offered>>
    /\ UNCHANGED lockVars
    /\ UNCHANGED runVars
    /\ UNCHANGED overrideVars
    /\ UNCHANGED settled
    /\ UNCHANGED <<cacheVars, queueVars, prodVars, loopVars, syncVars,
                   alerting_mode, last_discovery_sent,
                   last_containers_removed, entityVars, discoVars, regVars,
                   envVars>>

(***************************************************************************)
(* Environment: the clock, the registry's users, the local discovery.      *)
(***************************************************************************)
\* The discovery stamps a change with the time it is made at, later than
\* the time the running pass has read.
MysqlKey == <<"mysql", None>>
ServiceInfos ==
    {[address |-> "127.0.0.1", port |-> "3306", protocol |-> "tcp",
      exe_path |-> "/usr/sbin/mysqld"],
     [address |-> "127.0.0.1", port |-> "3307", protocol |-> "tcp",
      exe_path |-> "/usr/sbin/mysqld"]}
Inspects == {"I1", "I2"}

\* bleemeo_agent.util.get_clock() advances.
Tick ==
    /\ world.ticks
    /\ clock < MaxClock
    /\ clock' = clock + 1
    /\ UNCHANGED mqttVars
    /\ UNCHANGED ghostVars
    /\ UNCHANGED lockVars
    /\ UNCHANGED runVars
    /\ UNCHANGED overrideVars
    /\ UNCHANGED settled
    /\ UNCHANGED <<cacheVars, queueVars, prodVars, loopVars, syncVars,
                   connVars, entityVars, discoVars, regVars, env_events,
                   boot, created>>

\* The core has gathered the facts of the host (fqdn among them).
FactsArrive ==
    /\ boot = "run"
    /\ ~last_facts
    /\ last_facts' = TRUE
    /\ UNCHANGED <<config, sleep_delay, waited, sync_scheduled, agent_uuid,
                   password, transport, subscribed, close_waited>>
    /\ UNCHANGED mqttVars
    /\ UNCHANGED ghostVars
    /\ UNCHANGED lockVars
    /\ UNCHANGED overrideVars
    /\ UNCHANGED settled
    /\ UNCHANGED <<cacheVars, queueVars, prodVars, loopVars, syncVars,
                   connVars, entityVars, discoVars, regVars, envVars>>

\* Somebody deletes an entity of this agent on the registry.
RemoteDelete(id) ==
    /\ boot = "run"
    /\ world.remote_deletes
    /\ env_events < MaxEnv
    /\ id \in DOMAIN remote_metrics \cup remote_services \cup remote_containers
    /\ env_events' = env_events + 1
    /\ remote_metrics' = DictDel(remote_metrics, id)
    /\ remote_services' = remote_services \ {id}
    /\ remote_containers' = remote_containers \ {id}
    /\ UNCHANGED mqttVars
    /\ UNCHANGED ghostVars
    /\ UNCHANGED lockVars
    /\ UNCHANGED runVars
    /\ UNCHANGED overrideVars
    /\ settled' = "changed"
    /\ UNCHANGED <<cacheVars, queueVars, prodVars, loopVars, syncVars,
                   connVars, entityVars, discoVars, next_id, clock, boot,
                   created>>

\* The discovery finds a service, or finds it changed.
DiscoverService(key, service_info) ==
    /\ boot = "run"
    /\ env_events < MaxEnv
    /\ IF key \in DOMAIN services THEN services[key] # service_info
       ELSE TRUE
    /\ env_events' = env_events + 1
    /\ clock' = clock + 1
    /\ services' = DictSet(services, key, service_info)
    /\ last_discovery_update' = clock + 1
    /\ UNCHANGED mqttVars
    /\ UNCHANGED ghostVars
    /\ UNCHANGED lockVars
    /\ UNCHANGED runVars
    /\ UNCHANGED overrideVars
    /\ settled' = "changed"
    /\ UNCHANGED <<cacheVars, queueVars, prodVars, loopVars, syncVars,
                   connVars, entityVars, docker_containers,
                   last_services_autoremove, regVars, boot, created>>

\* The discovery removes a service that stopped (auto-removal).
RemoveService(key) ==
    /\ boot = "run"
    /\ env_events < MaxEnv
    /\ key \in DOMAIN services
    /\ env_events' = env_events + 1
    /\ clock' = clock + 1
    /\ services' = DictDel(services, key)
    /\ last_discovery_update' = clock + 1
    /\ last_services_autoremove' = clock + 1
    /\ UNCHANGED mqttVars
    /\ UNCHANGED ghostVars
    /\ UNCHANGED lockVars
    /\ UNCHANGED runVars
    /\ UNCHANGED overrideVars
    /\ settled' = "changed"
    /\ UNCHANGED <<cacheVars, queueVars, prodVars, loopVars, syncVars,
                   connVars, entityVars, docker_containers, regVars, boot,
                   created>>

\* The discovery finds a container, or finds its inspect data changed.
DiscoverContainer(name, inspect) ==
    /\ boot = "run"
    /\ env_events < MaxEnv
    /\ IF name \in DOMAIN docker_containers
       THEN docker_containers[name] # inspect
       ELSE TRUE
    /\ env_events' = env_events + 1
    /\ clock' = clock + 1
    /\ docker_containers' = DictSet(docker_containers, name, inspect)
    /\ last_discovery_update' = clock + 1
    /\ UNCHANGED mqttVars
    /\ UNCHANGED ghostVars
    /\ UNCHANGED lockVars
    /\ UNCHANGED runVars
    /\ UNCHANGED overrideVars
    /\ settled' = "changed"
    /\ UNCHANGED <<cacheVars, queueVars, prodVars, loopVars, syncVars,
                   connVars, entityVars, services, last_services_autoremove,
                   regVars, boot, created>>

\* The discovery no longer finds a container.
RemoveContainer(name) ==
    /\ boot = "run"
    /\ env_events < MaxEnv
    /\ name \in DOMAIN docker_containers
    /\ env_events' = env_events + 1
    /\ clock' = clock + 1
    /\ docker_containers' = DictDel(docker_containers, name)
    /\ last_discovery_update' = clock + 1
    /\ UNCHANGED mqttVars
    /\ UNCHANGED ghostVars
    /\ UNCHANGED lockVars
    /\ UNCHANGED runVars
    /\ UNCHANGED overrideVars
    /\ settled' = "changed"
    /\ UNCHANGED <<cacheVars, queueVars, prodVars, loopVars, syncVars,
                   connVars, entityVars, services, last_services_autoremove,
                   regVars, boot, created>>

(***************************************************************************)
(* Initial states and specifications.                                      *)
(***************************************************************************)
\* The info __init__ records for agent_status: {}.
EmptyInfo == [status_of |-> None, instance |-> None, container |-> None]

\* An environment: the points the collaborators emit, the services and
\* containers the discovery has found at startup, the alerting modes the
\* registry can report, the answers it can give to each kind of request,
\* the control messages, whether users delete entities on the registry and
\* whether the clock advances.  The discovery can find, lose and find
\* changed the services and containers of the environment.
World(emit, found_services, found_containers, modes, answers, messages, remote_deletes, ticks) ==
    [emit |-> emit,
     found_services |-> found_services,
     services |-> DOMAIN found_services,
     found_containers |-> found_containers,
     containers |-> DOMAIN found_containers,
     modes |-> modes, answers |-> answers, messages |-> messages,
     remote_deletes |-> remote_deletes, ticks |-> ticks, mqtt |-> FALSE,
     upgrades |-> {FALSE}]

\* The answers of a registry that is always up.
Reliable ==
    [agent |-> {"ok"}, list |-> {"ok"}, service |-> {"ok"},
     container |-> {"ok"}, metric |-> {"ok"}, register |-> {"created"}]

\* The successful create calls of the earlier runs: every identifier of the
\* state file was stored there by one (lines 863-877).
CreatedBefore(persisted_metrics) ==
    {<<key, persisted_metrics[key]>> :
        key \in {k \in DOMAIN persisted_metrics : persisted_metrics[k] # None}}

\* The rows the registry holds for the metrics of a state file.
RemoteOf(persisted_metrics) ==
    LET keys == {k \in DOMAIN persisted_metrics : persisted_metrics[k] # None}
        KeyWith(id) == CHOOSE k \in keys : persisted_metrics[k] = id
    IN [id \in {persisted_metrics[k] : k \in keys} |->
           [label |-> KeyWith(id)[1],
            item |-> IF KeyWith(id)[3] = None THEN "" ELSE KeyWith(id)[3]]]

\* The state after lines 114-140 of __init__, in the environment w, for a
\* state file holding the metric cache persisted_metrics, whose identifiers
\* the registry knows as remote.
InitAgent(w, persisted_metrics, remote, persisted_services, fresh) ==
    /\ world = w
    /\ boot = "init"
    /\ state_metrics_uuid = persisted_metrics
    /\ metrics_uuid = SetDefault(persisted_metrics, AgentStatusKey, None)
    /\ metrics_info = (AgentStatusKey :> EmptyInfo)
    /\ thresholds = {}
    /\ metric_queue = <<>>
    /\ next_pid = 1
    /\ ppc = [p \in Producers |-> "idle"]
    /\ pmetric = [p \in Producers |-> NoPoint]
    /\ emitted_unresolved = {}
    /\ lpc = IF fresh THEN "config" ELSE "wait"
    /\ l_metrics = <<>>
    /\ l_repush = None
    /\ l_metric = NoPoint
    /\ published = <<>>
    /\ spc = "idle"
    /\ s_now = 0
    /\ s_todo = {}
    /\ s_list = EmptyDict
    /\ s_key = NoKey
    /\ s_payload = NoPayload
    /\ s_data = {}
    /\ calls = <<>>
    /\ alerting_mode = FALSE
    /\ last_update = 0
    /\ last_discovery_sent = 0
    /\ last_containers_removed = 0
    /\ services_uuid = persisted_services
    /\ container_uuid = EmptyDict
    /\ state_services_uuid = persisted_services
    /\ services = w.found_services
    /\ docker_containers = w.found_containers
    /\ last_discovery_update = 1
    /\ last_services_autoremove = 0
    /\ clock = 1
    /\ remote_metrics = remote
    /\ remote_services \in
           SUBSET {persisted_services[key].uuid :
                      key \in DOMAIN persisted_services}
    /\ remote_containers = {}
    /\ next_id = Cardinality(DOMAIN remote)
                     + Cardinality(DOMAIN persisted_services) + 1
    /\ env_events = 0
    /\ mqtt_queue_size = 0
    /\ connected = FALSE
    /\ terminating = FALSE
    /\ pub_pc = [c \in Contexts |-> "idle"]
    /\ pub_reg = [c \in Contexts |-> 0]
    /\ pub_msg = [c \in Contexts |-> None]
    /\ inflight = 0
    /\ mqtt_events = 0
    /\ offered = [n |-> 0, context |-> None, msg |-> None, force |-> FALSE,
                  passed |-> FALSE]
    /\ created = CreatedBefore(persisted_metrics)
    /\ resync_pending = FALSE
    /\ callback_error = FALSE
    /\ metrics_lock = None
    /\ s_answer = None
    /\ config \in (IF fresh THEN SUBSET ConfigKeys ELSE {ConfigKeys})
    /\ sleep_delay = SleepDelayFirst
    /\ waited = 0
    /\ sync_scheduled = ~fresh
    /\ agent_uuid = (IF fresh THEN None ELSE AgentUuid)
    /\ password = (IF fresh THEN None ELSE Password)
    /\ last_facts = ~fresh
    /\ transport = "none"
    /\ subscribed = FALSE
    /\ close_waited = 0
    /\ settled = "changed"

\* The same with no service override to apply.
InitState(w, persisted_metrics, remote, persisted_services, fresh) ==
    /\ InitAgent(w, persisted_metrics, remote, persisted_services, fresh)
    /\ ov_services = EmptyDict
    /\ ov_override = <<>>
    /\ ov_done = 0

\* The state after __init__ of an agent that an earlier run has configured
\* and registered: run() goes through check_config_requirement without
\* waiting and the first pass does not register.
InitEntities(w, persisted_metrics, remote, persisted_services) ==
    InitState(w, persisted_metrics, remote, persisted_services, FALSE)

\* The same for a state file that holds no service.
InitWith(w, persisted_metrics, remote) ==
    InitEntities(w, persisted_metrics, remote, EmptyDict)

\* A fresh installation whose collaborators emit cpu and its status, and a
\* registry that can refuse to create a metric.
WorldMetrics ==
    World({PtCpu, PtCpuStatus}, EmptyDict, EmptyDict, {FALSE},
          [Reliable EXCEPT !.metric = {"ok", "fail"}], {}, FALSE, FALSE)

InitMetrics == InitWith(WorldMetrics, EmptyDict, EmptyDict)

\* A restart: the state file holds the identifier of cpu, registered by an
\* earlier run; cpu is still emitted; a user can delete it on the registry.
CpuKey == KeyOf(PtCpu)
RestartState == (CpuKey :> Uuids[1]) @@ (AgentStatusKey :> Uuids[2])
WorldRestart ==
    World({PtCpu}, EmptyDict, EmptyDict, {FALSE}, Reliable, {}, TRUE, FALSE)

InitRestart == InitWith(WorldRestart, RestartState, RemoteOf(RestartState))

\* A restart of an agent upgraded from a version that cached
\* elasticsearch_search_time without its service; the new version may have
\* cached the new identity already.
EsOldKey == <<"elasticsearch_search_time", None, None>>
UpgradeStates ==
    {(EsOldKey :> Uuids[1]),
     (EsOldKey :> Uuids[1]) @@ (KeyOf(PtEs) :> Uuids[2])}
EsKey == <<"elasticsearch", None>>
EsInfo ==
    [address |-> "127.0.0.1", port |-> "9200", protocol |-> "tcp",
     exe_path |-> "/usr/bin/java"]
WorldUpgrade ==
    World({PtEs}, (EsKey :> EsInfo), EmptyDict, {FALSE}, Reliable, {}, FALSE,
          FALSE)

InitUpgrade ==
    \E persisted_metrics \in UpgradeStates :
        InitWith(WorldUpgrade, persisted_metrics, RemoteOf(persisted_metrics))

\* A fresh installation on a host running mysql; the discovery can lose
\* the service or find it on another port, a user can delete it on the
\* registry, the registry can refuse a request on a service.
MysqlInfo == CHOOSE info \in ServiceInfos : info.port = "3306"
WorldService ==
    World({PtMysql}, (MysqlKey :> MysqlInfo), EmptyDict, {FALSE},
          [Reliable EXCEPT !.service = {"ok", "fail"}], {}, TRUE, FALSE)

InitService == InitWith(WorldService, EmptyDict, EmptyDict)

\* A fresh installation on a host running the container web1; the
\* discovery can lose the container or find it changed, a user can delete
\* it on the registry, the registry can refuse a request on a container.
WorldContainer ==
    World({PtDocker}, EmptyDict, ("web1" :> "I1"), {FALSE},
          [Reliable EXCEPT !.container = {"ok", "fail"}], {}, TRUE, FALSE)

InitContainer == InitWith(WorldContainer, EmptyDict, EmptyDict)

\* A restart of the agent of a host where mysql, registered by an earlier
\* run, no longer runs; somebody may have deleted it on the registry, the
\* registry can refuse to delete it and can ask for a resynchronization.
GoneState ==
    (MysqlKey :> (("uuid" :> Uuids[1]) @@ ServiceEntry(MysqlKey, MysqlInfo)))
WorldGone ==
    [World({}, EmptyDict, EmptyDict, {FALSE},
           [Reliable EXCEPT !.service = {"ok", "fail"}],
           {ResyncMessage}, FALSE, FALSE) EXCEPT !.services = {MysqlKey}]

InitGone == InitEntities(WorldGone, EmptyDict, EmptyDict, GoneState)

\* The same host with collaborators that emit nothing, and a registry that
\* answers every request and can ask for a resynchronization.
WorldResync ==
    World({}, EmptyDict, ("web1" :> "I1"), {FALSE}, Reliable,
          {ResyncMessage}, TRUE, FALSE)

InitResync == InitWith(WorldResync, EmptyDict, EmptyDict)

\* A restart with cpu registered, on an account the registry can report
\* in alerting mode; the registry can refuse to delete a metric.
WorldAlerting ==
    World({PtCpu, PtCpuStatus}, EmptyDict, EmptyDict, {FALSE, TRUE},
          [Reliable EXCEPT !.metric = {"ok", "fail"}], {}, FALSE, FALSE)

InitAlerting == InitWith(WorldAlerting, RestartState, RemoteOf(RestartState))

\* A restart with cpu registered and no producer, over a time long enough
\* for the periodic full reconciliation, with control messages and an
\* unreachable registry.
OtherMessage == Message(NotifyTopic, TRUE, "no_type")
OtherTopicMessage == Message(<<"v1/agent", AgentUuid, "top">>, TRUE, "resync")
BigMessage == Message(NotifyTopic, FALSE, "resync")
MalformedMessage == Message(NotifyTopic, TRUE, "malformed")
ScalarMessage == Message(NotifyTopic, TRUE, "scalar")
UnknownTypeMessage == Message(NotifyTopic, TRUE, "config")
WorldClock ==
    World({}, EmptyDict, EmptyDict, {FALSE},
          [Reliable EXCEPT !.agent = {"ok", "exc"}, !.list = {"ok", "exc"}],
          {ResyncMessage, OtherMessage, OtherTopicMessage, BigMessage,
           MalformedMessage, ScalarMessage, UnknownTypeMessage}, TRUE, TRUE)

InitClock == InitWith(WorldClock, RestartState, RemoteOf(RestartState))

\* A restart with cpu registered, its status emitted for the first time,
\* and a registry that can fail on every kind of request.
WorldDown ==
    World({PtCpu, PtCpuStatus}, EmptyDict, EmptyDict, {FALSE},
          [Reliable EXCEPT !.agent = {"ok", "fail"}, !.list = {"ok", "exc"},
                           !.metric = {"ok", "fail"}], {}, FALSE, FALSE)

InitDown == InitWith(WorldDown, RestartState, RemoteOf(RestartState))

\* A restart with cpu and agent_status registered, a broker the agent
\* connects to and loses, top-info publications and a request to stop.
WorldMqtt ==
    [World({PtCpu}, EmptyDict, EmptyDict, {FALSE}, Reliable, {}, FALSE,
           FALSE) EXCEPT !.mqtt = TRUE]

InitMqtt == InitWith(WorldMqtt, RestartState, RemoteOf(RestartState))

\* The same with collaborators that emit nothing: the transport carries the
\* connect, top-info and disconnect messages only.
WorldBroker == [WorldMqtt EXCEPT !.emit = {}]
InitBroker == InitWith(WorldBroker, RestartState, RemoteOf(RestartState))

Init ==
    \/ InitMetrics
    \/ InitRestart
    \/ InitUpgrade
    \/ InitService
    \/ InitContainer
    \/ InitAlerting
    \/ InitClock
    \/ InitDown
    \/ InitBroker

Emit == \E p \in Producers : \E t \in world.emit : EmitMetric(p, t)
Put == \E p \in Producers : EmitPut(p)
Lock == \E p \in Producers : Acquire(p)
Record == \E p \in Producers : EmitRecord(p)

Producer == Emit \/ Put \/ Lock \/ Record
DrainLoop ==
    \/ LoopStart \/ LoopGet \/ LoopRequeue \/ LoopTimeout \/ LoopPublish
    \/ PublishLoad("loop") \/ PublishStore("loop")

\* The steps of the pass that run whatever the discovery has found.
PassCore ==
    \/ SyncStart
    \/ \E outcome \in world.answers.agent : \E mode \in world.modes :
           GetAgentApi(outcome, mode)
    \/ \E outcome \in world.answers.list : \E kept \in SUBSET world.services :
           PurgeFetchServices(outcome, kept)
    \/ \E outcome \in world.answers.list :
           \E with_status \in
               (IF alerting_mode THEN SUBSET DOMAIN remote_metrics ELSE {{}}) :
               RetriveFetch(outcome, with_status)
    \/ Acquire("sync")
    \/ RetrivePurge
    \/ ContainersEnd
    \/ ContainersDelEnd
    \/ RegisterMetricStart
    \/ \E metric_key \in s_todo : RegisterMetricPrepare(metric_key)
    \/ \E outcome \in world.answers.metric : RegisterMetricPost(outcome)
    \/ RegisterMetricStore
    \/ RegisterMetricEnd
    \/ SyncDone

\* The steps that need an alerting mode, a service or a container.
PassAlerting ==
    \E id \in s_todo : \E outcome \in world.answers.metric :
        RetriveDelete(id, outcome)
PassServices ==
    \/ \E key \in world.services : \E outcome \in world.answers.service :
           PurgeDeleteService(key, outcome)
    \/ \E key \in world.services : \E outcome \in world.answers.service :
           RegisterService(key, outcome)
PassContainers ==
    \/ \E name \in world.containers : \E outcome \in world.answers.container :
           RegisterContainer(name, outcome)
    \/ \E name \in world.containers : \E outcome \in world.answers.container :
           DeleteContainer(name, outcome)

EnvRegistry ==
    \E id \in {Uuids[i] : i \in 1..Len(Uuids)} : RemoteDelete(id)
EnvMessages == \E msg \in world.messages : OnMessage(msg)
EnvServices ==
    \/ \E key \in world.services : \E service_info \in ServiceInfos :
           DiscoverService(key, service_info)
    \/ \E key \in world.services : RemoveService(key)
EnvContainers ==
    \/ \E name \in world.containers : \E inspect \in Inspects :
           DiscoverContainer(name, inspect)
    \/ \E name \in world.containers : RemoveContainer(name)

\* The connector with producers, in an environment without services,
\* containers, alerting mode or control messages.
NextMetrics == ApplyUpgrade \/ Producer \/ DrainLoop \/ PassCore

SpecMetrics == InitMetrics /\ [][NextMetrics]_vars

\* The same after a restart, with deletions on the registry.
NextRestart == NextMetrics \/ EnvRegistry

SpecRestart == InitRestart /\ [][NextRestart]_vars

SpecDown == InitDown /\ [][NextMetrics]_vars

\* The connector on a host running mysql.
NextService == NextMetrics \/ PassServices \/ EnvServices \/ EnvRegistry

SpecService == InitService /\ [][NextService]_vars

\* The connector on a host running the container web1.
NextContainer ==
    NextMetrics \/ PassContainers \/ EnvContainers \/ EnvRegistry

SpecContainer == InitContainer /\ [][NextContainer]_vars

\* The synchronization of a host with a container, its discovery, the
\* registry and the control messages.
NextResync ==
    ApplyUpgrade \/ PassCore \/ PassContainers \/ EnvContainers
        \/ EnvRegistry \/ EnvMessages

SpecResync == InitResync /\ [][NextResync]_vars

\* The synchronization of a host whose service is gone, and the control
\* messages.
NextGone ==
    \/ ApplyUpgrade
    \/ PassCore
    \/ \E key \in world.services : \E outcome \in world.answers.service :
           PurgeDeleteService(key, outcome)
    \/ EnvMessages

SpecGone == InitGone /\ [][NextGone]_vars

\* The connector of a restarted agent with nothing to register, over a long
\* time, with control messages.
NextClock ==
    \/ ApplyUpgrade
    \/ SyncStart
    \/ \E outcome \in world.answers.agent : \E mode \in world.modes :
           GetAgentApi(outcome, mode)
    \/ \E outcome \in world.answers.list : PurgeFetchServices(outcome, {})
    \/ \E outcome \in world.answers.list : RetriveFetch(outcome, {})
    \/ Acquire("sync")
    \/ RetrivePurge
    \/ ContainersEnd
    \/ ContainersDelEnd
    \/ RegisterMetricStart
    \/ RegisterMetricEnd
    \/ SyncDone
    \/ EnvRegistry
    \/ EnvMessages
    \/ Tick

SpecClock == InitClock /\ [][NextClock]_vars

\* The MQTT client, the top-info job and the request to stop.
EnvMqtt ==
    \/ OnConnect \/ OnDisconnect \/ OnPublish \/ OnPublishStore
    \/ PublishTopInfo \/ Terminate \/ Shutdown \/ CloseWait \/ Disconnect
    \/ \E c \in {"job", "net"} : PublishLoad(c)
    \/ \E c \in {"job", "net"} : PublishStore(c)

\* A fresh installation: no identifier, no password, a configuration that
\* may lack its keys, facts that may not be known yet, a registry that can
\* refuse the registration, and a request to stop.
WorldBoot ==
    [World({PtCpu}, EmptyDict, EmptyDict, {FALSE},
           [Reliable EXCEPT !.register = RegisterAnswers], {}, FALSE, FALSE)
     EXCEPT !.mqtt = TRUE]

InitBoot == InitState(WorldBoot, EmptyDict, EmptyDict, EmptyDict, TRUE)

Bootstrap ==
    \/ \E reloaded \in SUBSET ConfigKeys : CheckConfigWait(reloaded)
    \/ CheckConfigStop
    \/ CheckConfigPass
Registration == \E outcome \in world.answers.register : Register(outcome)

NextBoot ==
    \/ ApplyUpgrade
    \/ Bootstrap
    \/ Registration
    \/ FactsArrive
    \/ Producer
    \/ DrainLoop
    \/ PassCore
    \/ Terminate
    \/ Shutdown \/ CloseWait \/ Disconnect

SpecBoot == InitBoot /\ [][NextBoot]_vars

\* The connector and its MQTT transport.
NextMqtt ==
    \/ ApplyUpgrade
    \/ Producer
    \/ LoopStart \/ LoopGet \/ LoopTimeout \/ LoopPublish
    \/ PublishLoad("loop") \/ PublishStore("loop")
    \/ EnvMqtt

SpecMqtt == InitMqtt /\ [][NextMqtt]_vars

Next ==
    \/ ApplyUpgrade
    \/ Producer
    \/ DrainLoop
    \/ PassCore
    \/ PassAlerting
    \/ PassServices
    \/ PassContainers
    \/ EnvRegistry
    \/ EnvMessages
    \/ EnvServices
    \/ EnvContainers
    \/ EnvMqtt
    \/ Tick

Spec == Init /\ [][Next]_vars

(***************************************************************************)
(* Properties.                                                             *)
(***************************************************************************)
\* The points handed to the transport so far, batch after batch, and the
\* points of the batch being built.
RECURSIVE Flatten(_)
Flatten(batches) ==
    IF batches = <<>> THEN <<>>
    ELSE Head(batches) \o Flatten(Tail(batches))

Delivered == {Flatten(published)[i] : i \in 1..Len(Flatten(published))}
Batched == {l_metrics[i] : i \in 1..Len(l_metrics)}

\* C1: a point emitted while its identity had no identifier is never put in
\* a batch or handed to the transport unless a create call for its identity
\* has succeeded, and the identifier it carries is the one that call stored;
\* a point dequeued while its identity is unresolved is only re-queued.
C1_NoPrematureDelivery ==
    /\ [](\A metric \in Delivered \cup Batched :
              metric.pid \in emitted_unresolved =>
                  /\ metric.uuid \notin {None, "absent"}
                  /\ <<KeyOf(metric), metric.uuid>> \in created)
    /\ [][(lpc = "get" /\ metric_queue # <<>>
               /\ metric_queue' = Tail(metric_queue)
               /\ CacheValue(KeyOf(Head(metric_queue))) = None) =>
              /\ lpc' = "requeue"
              /\ l_metrics' = l_metrics
              /\ published' = published
          ]_vars

\* A point emitted before its identity was resolved has been delivered.
C1_Witness ==
    \E metric \in Delivered :
        /\ metric.pid \in emitted_unresolved
        /\ metric.uuid = metrics_uuid[KeyOf(metric)]


\* The registry call a step adds to the log of the pass, if any.
NewCalls ==
    IF Len(calls') > Len(calls) THEN {calls'[Len(calls')]} ELSE {}

\* The identifiers earlier create calls have returned for key.
CreatedFor(key) == {pair[2] : pair \in {c \in created : c[1] = key}}

StoresAnswer == spc = "metric_store" /\ spc' # "metric_store"

Answered(op, kind, target) ==
    \E i \in 1..Len(calls) :
        /\ calls[i].op = op
        /\ calls[i].kind = kind
        /\ calls[i].target = target
        /\ calls[i].outcome = "ok"

\* A step keeps the identifier of every resolved metric, or removes the
\* entry during the threshold refresh because the fetched list does not
\* hold the identifier or because the delete call on it was answered 204.
MetricMappingKept(key) ==
    LET id == metrics_uuid[key] IN
    IF key \in DOMAIN metrics_uuid'
    THEN metrics_uuid'[key] = id
    ELSE /\ spc = "thr_del"
         /\ \/ id \notin {r.id : r \in s_data}
            \/ Answered("DELETE", "metric", id)

\* The startup upgrade renames the identity of elasticsearch_search_time:
\* the identifier moves to the new identity, unless that one is cached.
MetricMappingMoved(key) ==
    /\ boot = "init"
    /\ key \in UpgradedKeys(metrics_uuid)
    /\ key \notin DOMAIN metrics_uuid'
    /\ IF UpgradedKey(key) \in DOMAIN metrics_uuid
       THEN metrics_uuid'[UpgradedKey(key)] = metrics_uuid[UpgradedKey(key)]
       ELSE metrics_uuid'[UpgradedKey(key)] = metrics_uuid[key]

\* A step keeps the identifier of every cached service, or removes the
\* entry on a delete call answered 204 or 404, or on a fetched list that
\* does not hold the identifier.
ServiceMappingKept(key) ==
    LET id == services_uuid[key].uuid IN
    IF key \in DOMAIN services_uuid'
    THEN services_uuid'[key].uuid = id
    ELSE \E call \in NewCalls :
             /\ call.kind = "service"
             /\ call.outcome = "ok"
             /\ \/ call.op = "DELETE" /\ call.target = id
                \/ call.op = "GET" /\ id \notin remote_services

\* A step keeps the identifier of every cached container, or removes the
\* entry on a delete call answered 204 or 404.
ContainerMappingKept(name) ==
    LET id == container_uuid[name][2] IN
    IF name \in DOMAIN container_uuid'
    THEN container_uuid'[name][2] = id
    ELSE \E call \in NewCalls :
             /\ call.kind = "container"
             /\ call.outcome = "ok"
             /\ call.op = "DELETE" /\ call.target = id

Resolved == {key \in DOMAIN metrics_uuid : metrics_uuid[key] # None}

\* C3 (as first stated): no step, the startup upgrade included, replaces or
\* resets the identifier of a metric, a service or a container, and the
\* mapping is removed only by a deletion decided against the registry.
C3_MappingKeptOrDeleted ==
    [][/\ \A key \in Resolved : MetricMappingKept(key)
       /\ \A key \in DOMAIN services_uuid : ServiceMappingKept(key)
       /\ \A name \in DOMAIN container_uuid : ContainerMappingKept(name)
      ]_vars

\* C3: no step replaces or resets the identifier of a metric, a service or
\* a container; the mapping is removed only by a deletion decided against
\* the registry, or by the startup upgrade, which renames the identity
\* (elasticsearch_search_time, None, item) and moves its identifier to
\* (elasticsearch_search_time, elasticsearch, item) unless that identity
\* holds one already.
C3_MappingKeptDeletedOrMoved ==
    [][/\ \A key \in Resolved :
              MetricMappingKept(key) \/ MetricMappingMoved(key)
       /\ \A key \in DOMAIN services_uuid : ServiceMappingKept(key)
       /\ \A name \in DOMAIN container_uuid : ContainerMappingKept(name)
      ]_vars

\* After the upgrade moved the identifier of the old identity to the new
\* one, a point of the new identity was delivered with it.
C3_Witness ==
    /\ EsOldKey \notin DOMAIN metrics_uuid
    /\ \E metric \in Delivered :
           /\ KeyOf(metric) = KeyOf(PtEs)
           /\ metric.uuid = Uuids[1]
           /\ <<EsOldKey, Uuids[1]>> \in created

\* C4: the outbound queue never holds more points than the ceiling, with
\* producers emitting while the drain loop re-queues unresolved points.
C4_QueueWithinCeiling == Len(metric_queue) <= QueueCeiling

\* The identities whose identifier, once returned by a create call, the
\* threshold refresh has removed from the cache since.
RemovedByRefresh ==
    {key \in {pair[1] : pair \in created} :
        \E id \in CreatedFor(key) :
            id \notin DOMAIN remote_metrics /\ CacheValue(key) # id}

RefreshEnds == spc = "thr_del" /\ s_todo = {} /\ spc' # "thr_del"

\* The step is the drain loop dequeuing a point.
Dequeues ==
    lpc = "get" /\ metric_queue # <<>> /\ metric_queue' = Tail(metric_queue)

\* The step is the producer p recording the identity of its point.
Records(p) == ppc[p] = "record" /\ ppc'[p] = "idle"

OrphansLeft ==
    {key \in s_todo \cap DOMAIN metrics_info :
        /\ CacheValue(key) = None
        /\ metrics_info[key].status_of # None
        /\ FromMetricKey(key) \notin DOMAIN metrics_uuid
        /\ FromMetricKey(key) \notin DOMAIN s_list}

\* C6: a resolver cycle that ends without an exception has purged every
\* unresolved metric whose parent (status_of) is deleted.
C6_OrphansPurgedInCycle ==
    (spc = "done" /\ \A i \in 1..Len(calls) : calls[i].outcome # "exc") =>
        OrphansLeft = {}

\* The last request of the pass is a create call for a metric, answered
\* with another status than 201.
CreateRefused ==
    /\ calls # <<>>
    /\ calls[Len(calls)].op = "POST"
    /\ calls[Len(calls)].kind = "metric"
    /\ calls[Len(calls)].outcome = "fail"

\* C7: a cycle in which a create call is refused leaves that metric
\* unresolved and still visits every other unresolved metric.
C7_CycleVisitsAll ==
    (spc = "done" /\ CreateRefused) =>
        /\ CacheValue(calls[Len(calls)].target) = None
        /\ s_todo = {}

\* The pass is running and every request it has made has failed.
OnlyFailures(log) ==
    /\ log # <<>>
    /\ \A i \in 1..Len(log) : log[i].outcome # "ok"

\* C8: during a pass whose requests fail, no identity loses or changes its
\* identifier, the dequeued points of the resolved identities go to the
\* batch with their identifier, no unresolved identity gets one, and the
\* dequeued points of the identities that have none are held for the
\* queue.
C8_FailuresLoseNothing ==
    [][(spc # "idle" /\ OnlyFailures(calls) /\ OnlyFailures(calls')) =>
           /\ \A key \in Resolved : CacheValue(key)' = CacheValue(key)
           /\ services_uuid' = services_uuid
           /\ container_uuid' = container_uuid
           /\ \A key \in DOMAIN metrics_uuid' :
                  metrics_uuid'[key] # None => key \in Resolved
           /\ Dequeues =>
                  LET metric == Head(metric_queue) IN
                  IF KeyOf(metric) \in Resolved
                  THEN l_metrics' =
                           Append(l_metrics,
                                  WithUuid(metric, metrics_uuid[KeyOf(metric)]))
                  ELSE lpc' = "requeue"
      ]_vars

\* The identifiers the cache holds and the entities the registry holds.
CacheIds ==
    {metrics_uuid[key] : key \in Resolved}
        \cup {services_uuid[key].uuid : key \in DOMAIN services_uuid}
        \cup {container_uuid[name][2] : name \in DOMAIN container_uuid}
RegistryIds ==
    DOMAIN remote_metrics \cup remote_services \cup remote_containers

\* C9: once two passes have run to their end, every request answered with
\* success, since the discovery, the registry and the identities emitted
\* last changed, the cache holds the identifiers of the registry's entities
\* and no other.
C9_ConvergedAfterTwoPasses ==
    settled = "two_passes" => CacheIds = RegistryIds

\* The fields of a delivered point, without the identifier the drain loop
\* adds and the object identity.
OriginalFields(metric) ==
    [f \in DOMAIN metric \ {"uuid", "pid"} |-> metric[f]]

\* The metric identities that belong to a service.
OfService(keys) == {key \in keys : key[2] # None}

\* The last registry call of the synchronization.
LastCall == IF calls' # <<>> THEN {calls'[Len(calls')]} ELSE {}

\* C10: a metric of a service gets an identifier only by a create call
\* made while the service holds a cached identifier, whose payload names
\* that identifier as service; its points are delivered with the fields
\* they were emitted with and the identifier that create call returned.
C10_ServiceMetricScenario ==
    [][/\ \A key \in OfService(DOMAIN metrics_uuid') :
              (CacheValue(key) \in {None, "absent"}
                   /\ metrics_uuid'[key] # None) =>
                  /\ ServiceKeyOf(key) \in DOMAIN services_uuid
                  /\ \E call \in LastCall :
                         /\ call.op = "POST" /\ call.kind = "metric"
                         /\ call.target = key /\ call.outcome = "ok"
                         /\ "service" \in DOMAIN call.payload
                         /\ call.payload.service =
                                services_uuid[ServiceKeyOf(key)].uuid
       /\ \A metric \in Batched' \ Batched :
              KeyOf(metric) \in OfService({KeyOf(metric)}) =>
                  /\ OriginalFields(metric) \in world.emit
                  /\ metric.uuid \in CreatedFor(KeyOf(metric))
                  /\ metric.uuid = CacheValue(KeyOf(metric))
       /\ Delivered' \ Delivered \subseteq Batched
      ]_vars

\* A point of mysql_status, emitted before the metric was registered, has
\* been delivered with the identifier of the metric, created after the
\* service.
C10_Witness ==
    /\ MysqlKey \in DOMAIN services_uuid
    /\ \E metric \in Delivered :
           /\ OriginalFields(metric) = PtMysql
           /\ metric.pid \in emitted_unresolved
           /\ metric.uuid = CacheValue(KeyOf(PtMysql))
           /\ metric.uuid \in DOMAIN remote_metrics

(***************************************************************************)
(* C11: a registered container is updated, never created again, and only   *)
(* when its inspect data changed.                                          *)
(***************************************************************************)
\* The update calls the current pass has issued on the identifier id.
UpdatesOf(id) ==
    {i \in 1..Len(calls) : /\ calls[i].kind = "container"
                           /\ calls[i].op = "PUT"
                           /\ calls[i].target = id}

\* The create calls the current pass has issued for the container name.
CreatesOf(name) ==
    {i \in 1..Len(calls) : /\ calls[i].kind = "container"
                           /\ calls[i].op = "POST"
                           /\ calls[i].target = name}

\* C11: for a container registered with hash H1 and an identifier, the step
\* of _register_containers that visits it issues no registry call when its
\* inspect data still hashes to H1, and exactly one PUT on its identifier,
\* never a POST, when it hashes to H2 # H1; a successful PUT stores
\* (H2, identifier), a refused one leaves the entry as it was.  A pass
\* issues at most one update per identifier.
C11_RegisteredContainerUpdate ==
    /\ [](\A id \in remote_containers \cup
                    {container_uuid[n][2] : n \in DOMAIN container_uuid} :
              Cardinality(UpdatesOf(id)) <= 1)
    /\ [][spc = "containers" =>
            \A name \in DOMAIN container_uuid \cap (s_todo \ s_todo') :
                LET old_hash == container_uuid[name][1]
                    obj_uuid == container_uuid[name][2]
                    new_hash == InspectHash(s_list[name])
                IN  IF old_hash = new_hash
                    THEN /\ NewCalls = {}
                         /\ container_uuid' = container_uuid
                    ELSE \E call \in NewCalls :
                             /\ call.op = "PUT"
                             /\ call.kind = "container"
                             /\ call.target = obj_uuid
                             /\ IF call.outcome = "ok"
                                THEN container_uuid' =
                                         DictSet(container_uuid, name,
                                                 <<new_hash, obj_uuid>>)
                                ELSE container_uuid' = container_uuid
         ]_vars

\* web1, registered with the hash of I1, has been found changed and updated:
\* the pass issued one PUT and no POST, and the state holds the hash of I2
\* with the identifier of the registration.
C11_Witness ==
    /\ "web1" \in DOMAIN container_uuid
    /\ container_uuid["web1"][1] = InspectHash("I2")
    /\ Cardinality(UpdatesOf(container_uuid["web1"][2])) = 1
    /\ calls[Len(calls)].outcome = "ok"
    /\ CreatesOf("web1") = {}

(***************************************************************************)
(* C12-C14: the in-flight counter of the MQTT transport.                   *)
(***************************************************************************)
\* A step in which publish() is called.
PublishCalled == offered' # offered

\* C12: when the in-flight counter is above the ceiling, a publish without
\* force (a metric batch, a top-info message) hands nothing to the MQTT
\* client and leaves the counter as it is: the caller does not go on to
\* the increment.
C12_DroppedAboveCeiling ==
    [][(/\ PublishCalled
        /\ ~offered'.force
        /\ mqtt_queue_size > MqttQueueMaxSize) =>
           /\ mqtt_queue_size' = mqtt_queue_size
           /\ inflight' = inflight
           /\ pub_pc' = pub_pc
      ]_vars

\* A top-info message was given to publish while the counter was above the
\* ceiling and was dropped; the counter is still above the ceiling.
C12_Witness ==
    /\ offered.msg = "top_info"
    /\ ~offered.force
    /\ ~offered.passed
    /\ pub_pc["job"] = "idle"
    /\ mqtt_queue_size > MqttQueueMaxSize

\* C13: the connect message of on_connect and the disconnect message of a
\* clean shutdown pass the ceiling test whatever the in-flight counter is:
\* their caller goes on to the increment and hands them to the MQTT client.
C13_LifecycleBypassesCeiling ==
    [][(PublishCalled /\ offered'.msg \in {"connect", "disconnect"}) =>
           pub_pc'[offered'.context] = "load"
      ]_vars

\* No context is inside publish or on_publish.
TransportQuiet == \A c \in Contexts : pub_pc[c] = "idle"

\* C14: the in-flight counter is never negative and, whenever no publish
\* and no acknowledgment is in progress, it equals the number of messages
\* handed to the MQTT client and not yet acknowledged.
C14_CounterIsInFlight ==
    /\ mqtt_queue_size >= 0
    /\ TransportQuiet => mqtt_queue_size = inflight

(***************************************************************************)
(* C15, C16: the control messages.                                         *)
(***************************************************************************)
\* A step in which a synchronization pass starts.
PassBegins == spc = "idle" /\ spc' # "idle"

\* C15 (as first stated): the first pass that starts after a resync message
\* was handled runs the full reconciliation.
C15_ResyncForcesFull ==
    [][(PassBegins /\ resync_pending) => spc' = "agent"]_vars

\* The messages that are not a well-formed resync request on the
\* notification topic.
IgnoredMessages ==
    {OtherTopicMessage, BigMessage, MalformedMessage, ScalarMessage,
     OtherMessage, UnknownTypeMessage}

\* The state of the connector, the history variables left aside.
connectorVars ==
    <<cacheVars, queueVars, prodVars, loopVars, syncVars, connVars,
      entityVars, discoVars, regVars, mqttVars>>

\* C16 (as first stated): the callback handling a message of another topic,
\* an oversized one, one that is not valid JSON, one without message_type or
\* one of another message_type changes nothing in the connector and lets no
\* error escape.
C16_IgnoredMessages ==
    [][\A msg \in IgnoredMessages :
          OnMessage(msg) => /\ UNCHANGED connectorVars
                            /\ callback_error' = callback_error]_vars

(***************************************************************************)
(* C17: no registry call under metrics_lock.                               *)
(***************************************************************************)
\* C17: the synchronization issues no registry call while it holds
\* metrics_lock, and the step it takes with the lock held gives it back: a
\* producer waiting for the lock in emit_metric never waits for the answer
\* to a registry call.
C17_NoCallUnderLock ==
    [][/\ NewCalls # {} => metrics_lock # "sync" /\ metrics_lock' # "sync"
       /\ (metrics_lock = "sync" /\ metrics_lock' = "sync") =>
              UNCHANGED syncVars
      ]_vars

\* The synchronization holds the lock to store the answer to the create
\* call it has just made, while a producer waits for the lock.
C17_Witness ==
    /\ metrics_lock = "sync"
    /\ spc = "metric_store"
    /\ calls # <<>>
    /\ calls[Len(calls)].op = "POST"
    /\ \E p \in Producers : ppc[p] = "record"

(***************************************************************************)
(* C18: the durable copy of the identity cache.                            *)
(***************************************************************************)
\* C18 (as first stated): every step that changes the metric or the service
\* identity cache leaves the durable copy equal to the cache.
C18_DurableCopyFollows ==
    [][/\ metrics_uuid' # metrics_uuid => state_metrics_uuid' = metrics_uuid'
       /\ services_uuid' # services_uuid =>
              state_services_uuid' = services_uuid'
      ]_vars

(***************************************************************************)
(* C19: the entities deleted on the registry.                              *)
(***************************************************************************)
\* The full reconciliation has fetched the list of services.
ListFetched ==
    \E call \in NewCalls :
        call.op = "GET" /\ call.kind = "service" /\ call.outcome = "ok"

\* C19 (as first stated): when the full reconciliation has fetched the
\* list, no cached service and no cached container is left with an
\* identifier the registry does not hold; the removal is persisted and the
\* discovery forgets removed entities only.
C19_DeletedRemotelyPurged ==
    [][ListFetched =>
           /\ \A key \in DOMAIN services_uuid' :
                  services_uuid'[key].uuid \in remote_services
           /\ \A name \in DOMAIN container_uuid' :
                  container_uuid'[name][2] \in remote_containers
           /\ state_services_uuid' = services_uuid'
           /\ DOMAIN services \ DOMAIN services' \subseteq
                  DOMAIN services_uuid \ DOMAIN services_uuid'
      ]_vars

(***************************************************************************)
(* C20: the services that are no longer discovered.                        *)
(***************************************************************************)
\* The cached services with the identifier id.
CachedAs(id) == {key \in DOMAIN services_uuid : services_uuid[key].uuid = id}

\* C20: a full reconciliation goes through every cached service that is no
\* longer discovered and leaves none without a delete call on its
\* identifier; answered 204 or 404 the entry is removed and the cache
\* persisted, answered otherwise the entry stays as it is, for the next full
\* reconciliation to go through again.
C20_UndiscoveredServiceDeleted ==
    [][/\ (spc = "agent" /\ spc' = "purge") =>
              s_todo' = DOMAIN services_uuid \ DOMAIN services
       /\ (spc = "purge" /\ spc' = "purge" /\ s_todo' # s_todo) =>
              \E key \in s_todo :
                  /\ s_todo' = s_todo \ {key}
                  /\ \E call \in NewCalls :
                         /\ call.op = "DELETE" /\ call.kind = "service"
                         /\ call.target = services_uuid[key].uuid
       /\ (spc = "purge" /\ spc' = "thr") => s_todo = {}
       /\ \A call \in NewCalls :
              (call.op = "DELETE" /\ call.kind = "service"
                   /\ call.outcome # "exc") =>
                  LET status == DeleteStatus(call.target \in remote_services,
                                             call.outcome)
                  IN IF status \in {204, 404}
                     THEN /\ CachedAs(call.target) # {}
                          /\ DOMAIN services_uuid' =
                                 DOMAIN services_uuid \ CachedAs(call.target)
                          /\ state_services_uuid' = services_uuid'
                     ELSE services_uuid' = services_uuid
      ]_vars

\* The delete call for mysql was answered with success: mysql is neither in
\* the cache nor in its durable copy.
C20_Witness ==
    /\ \E i \in 1..Len(calls) :
           /\ calls[i].op = "DELETE" /\ calls[i].kind = "service"
           /\ calls[i].target = GoneState[MysqlKey].uuid
           /\ calls[i].outcome = "ok"
    /\ MysqlKey \notin DOMAIN services_uuid
    /\ MysqlKey \notin DOMAIN state_services_uuid

(***************************************************************************)
(* C21: the removal of containers that are no longer discovered.           *)
(***************************************************************************)
\* For how long the discovery has held its present result: no container
\* it misses has been absent for longer.
AbsenceSeen == clock - last_discovery_update

\* C21: a delete call for a container is issued only when the discovery has
\* missed the container for at least one full reconciliation interval.
C21_ContainerDeleteDebounced ==
    [][\A call \in NewCalls :
           (call.op = "DELETE" /\ call.kind = "container") =>
               AbsenceSeen >= FullSyncDelay
      ]_vars

(***************************************************************************)
(* C22: the size of the batches of the drain loop.                         *)
(***************************************************************************)
\* C22: every batch the drain loop hands to publish holds at least one
\* point and at most the batch ceiling of points.
C22_BatchWithinCeiling ==
    \A i \in 1..Len(published) :
        /\ Len(published[i]) >= 1
        /\ Len(published[i]) <= BatchCeiling

(***************************************************************************)
(* C23: the end of one _loop.  The connector thread calls _loop again and  *)
(* again (run, lines 233-234) and nothing stops it in the middle: its      *)
(* steps are taken as long as they are possible.  Nothing is assumed about *)
(* the producers nor about the resolver.                                   *)
(***************************************************************************)
\* Every step of the drain loop moves its position, the position of its
\* publish or the queue.
loopMoves == <<lpc, pub_pc, metric_queue>>

SpecMetricsFair == SpecMetrics /\ WF_loopMoves(DrainLoop)

\* C23: a _loop that has put a point back ends: it reaches its publish
\* step, after which run() looks at the shutdown signal again.
C23_InvocationEnds == (l_repush # None) ~> (l_repush = None)

(***************************************************************************)
(* C24: a call that failed is made again by the next pass.                 *)
(***************************************************************************)
\* The discovered containers whose create or update is still to be made:
\* the cache holds no entry for them, or one with another hash.
StaleContainers ==
    {name \in DOMAIN docker_containers :
         ContainerEntry(name)[1] # InspectHash(docker_containers[name])}

\* C24: between two passes, a container whose create or update is still to
\* be made is one the next pass goes through, without any new discovery.
C24_FailedCallRetried ==
    (spc = "idle" /\ StaleContainers # {}) => DiscoveryDue

(***************************************************************************)
(* C25: the wait for the configuration.                                    *)
(***************************************************************************)
\* The delay that follows a wait of delay seconds: 10 first, then twice
\* the last one, 600 at most.
DelayAfter(delay) ==
    IF delay = 0 THEN 10 ELSE IF delay * 2 > 600 THEN 600 ELSE delay * 2

\* C25: check_config_requirement returns to run() only with both keys
\* configured; while a key is missing each step of it is a wait, of 10
\* seconds first and then of twice the last delay, 600 at most, followed by
\* a reload; a stop signalled during a wait ends the connector, which then
\* has scheduled no synchronization and started no transport, and never
\* does.
C25_ConfigWait ==
    [][/\ (lpc = "config" /\ lpc' = "wait") =>
              /\ {"account_id", "registration_key"} \subseteq config
              /\ sync_scheduled'
       /\ (lpc = "config" /\ lpc' = "config"
               /\ <<config, sleep_delay, waited>>'
                      # <<config, sleep_delay, waited>>) =>
              /\ ~({"account_id", "registration_key"} \subseteq config)
              /\ ~terminating
              /\ waited' = DelayAfter(waited)
       /\ (lpc = "config" /\ lpc' = "stopped") =>
              /\ ~({"account_id", "registration_key"} \subseteq config)
              /\ terminating
              /\ waited' = DelayAfter(waited)
              /\ ~sync_scheduled' /\ transport' = "none"
       /\ (lpc = "config" /\ lpc' \notin {"config", "wait", "stopped"}) =>
              FALSE
       /\ lpc = "config" => ~sync_scheduled /\ transport = "none"
       /\ ~sync_scheduled => spc' = "idle" /\ calls' = <<>>
       /\ (lpc = "stopped" /\ ~sync_scheduled) =>
              /\ lpc' = "stopped" /\ ~sync_scheduled'
              /\ transport' = "none"
      ]_vars

\* The configuration was completed after seven waits, the last one of 600
\* seconds: run() has scheduled the synchronization.
C25_Witness ==
    /\ waited = SleepDelayMax
    /\ sleep_delay = SleepDelayMax
    /\ lpc = "wait"
    /\ sync_scheduled
    /\ ~terminating

(***************************************************************************)
(* C26: the registration of the agent.                                     *)
(***************************************************************************)
\* The registration requests among a set of calls.
Registrations(some_calls) ==
    {call \in some_calls : call.op = "POST" /\ call.kind = "agent"}

\* C26: without identifier a pass makes one registration request at most,
\* and none without the fact fqdn; the identifier comes only from an answer
\* 201 that holds an id; a pass that obtains none makes no other call and
\* ends with the identifier unset and the next pass free to register; with
\* an identifier stored no registration request is made and the identifier
\* stays.
C26_RegistrationRetried ==
    [][/\ agent_uuid = None =>
              /\ Len(calls') <= 1
              /\ NewCalls \subseteq Registrations(NewCalls)
              /\ ~last_facts => calls' = <<>>
       /\ (agent_uuid = None /\ agent_uuid' # None) =>
              /\ last_facts
              /\ Len(calls') = 1
              /\ calls'[1].op = "POST" /\ calls'[1].kind = "agent"
              /\ calls'[1].outcome = "created"
       /\ agent_uuid' = None =>
              /\ spc' = "idle"
              /\ \A i \in 1..Len(calls') :
                     calls'[i].outcome # "created"
       /\ agent_uuid # None =>
              /\ agent_uuid' = agent_uuid
              /\ Registrations(NewCalls) = {}
      ]_vars

\* The registry has refused the registration: the pass has ended after that
\* one request and the agent has no identifier.
C26_Witness ==
    /\ agent_uuid = None
    /\ last_facts
    /\ spc = "idle"
    /\ Len(calls) = 1
    /\ calls[1].op = "POST" /\ calls[1].kind = "agent"
    /\ calls[1].outcome = "refused"

(***************************************************************************)
(* C27: what run() waits for before _mqtt_setup.                           *)
(***************************************************************************)
\* A fresh installation with a broker the transport connects to.
NextReady ==
    \/ ApplyUpgrade
    \/ \E reloaded \in SUBSET ConfigKeys : CheckConfigWait(reloaded)
    \/ CheckConfigPass
    \/ Registration
    \/ FactsArrive
    \/ Producer
    \/ DrainLoop
    \/ PassCore
    \/ OnConnect
    \/ PublishLoad("net") \/ PublishStore("net")

SpecReady == InitBoot /\ [][NextReady]_vars

\* C27: _mqtt_setup runs only with an agent identifier, a password, the
\* facts and an identifier for agent_status; as long as it has not run the
\* connector thread is in check_config_requirement or in its wait loop (or
\* has stopped), the transport is not connected, nothing was handed to
\* publish and no batch was built.
C27_TransportGated ==
    [][/\ (transport = "none" /\ transport' # "none") =>
              /\ agent_uuid # None
              /\ password # None
              /\ last_facts
              /\ AgentStatusKey \in DOMAIN metrics_uuid
              /\ metrics_uuid[AgentStatusKey] # None
       /\ transport' = "none" =>
              /\ lpc' \in {"config", "wait", "stopped"}
              /\ ~connected'
              /\ published' = <<>>
              /\ l_metrics' = <<>>
              /\ offered'.n = 0 /\ offered'.context = None
              /\ inflight' = 0
      ]_vars

\* The transport was started and a batch was published.
C27_Witness ==
    /\ transport = "started"
    /\ published # <<>>
    /\ connected

(***************************************************************************)
(* C28: the end of run().                                                  *)
(***************************************************************************)
\* The connector with its transport, stopped while an upgrade of the agent
\* may be in progress.
WorldStop == [WorldMqtt EXCEPT !.upgrades = BOOLEAN]
InitStop == InitWith(WorldStop, RestartState, RemoteOf(RestartState))
SpecStop == InitStop /\ [][NextMqtt]_vars

\* The queued points whose identity holds an identifier.
Flushable ==
    {i \in 1..Len(metric_queue) : LoopVerdict(metric_queue[i]) = "send"}

\* C28: when the thread leaves the drain loop on the stop signal the
\* queue holds no point that could be sent; the disconnect message is handed
\* to publish exactly when the connector is connected; the transport is
\* disconnected after that publish has completed and after a wait of 5
\* seconds at most.
C28_ShutdownOrder ==
    [][/\ (lpc = "get" /\ lpc' = "closing") =>
              /\ Flushable = {}
              /\ connected <=>
                     (offered'.n # offered.n /\ offered'.msg = "disconnect")
       /\ (transport = "started" /\ transport' = "stopped") =>
              /\ lpc = "closing"
              /\ pub_pc["loop"] = "idle"
              /\ close_waited <= 5
      ]_vars

(***************************************************************************)
(* C29: connections and reconnections.                                     *)
(***************************************************************************)
\* C29: an on_connect that marks the connector connected hands a connect
\* message to the transport; an on_disconnect marks it not connected; once
\* the callback has returned, a connected connector whose transport runs
\* holds the subscription to its notification topic.
C29_ReconnectAnnounced ==
    [][/\ (~connected /\ connected') =>
              /\ ~terminating
              /\ offered'.n # offered.n
              /\ offered'.msg = "connect"
              /\ offered'.passed
       /\ (connected /\ ~connected') => ~subscribed'
       /\ (transport' = "started" /\ connected' /\ pub_pc'["net"] = "idle")
              => subscribed'
      ]_vars

(***************************************************************************)
(* _apply_service_override and _sanitize_service of bleemeo_agent.core, as *)
(* tests/core_test.py pins them (lines 304-381).  A service_info is a      *)
(* function from field names to values; every value is kept as its text.   *)
(***************************************************************************)
MaxOverride == 2

\* The texts int() converts, lines 314-323 and 337 of the test.
NumericTexts == {"1", "1234", "8080"}

Loopback == "127.0.0.1"
ProtocolTcp == "IPPROTO_TCP"

\* A service_info given as (field, value) pairs.
Info(pairs) == [f \in {pr[1] : pr \in pairs} |-> (CHOOSE pr \in pairs : pr[1] = f)[2]]

\* One entry of the service_override list.
Override(id, instance, pairs) == [id |-> id, instance |-> instance, info |-> Info(pairs)]

\* The service map of test_apply_service_override, lines 349-354.
TestServices ==
    (<<"apache", None>> :> Info({<<"placeholder", "apache">>}))
    @@ (<<"mysql", None>> :> Info({<<"placeholder", "mysql">>}))
    @@ (<<"mysql", "container-1">> :> Info({<<"placeholder", "mysql2">>}))
    @@ (<<"memcached", None>> :> Info({<<"address", Loopback>>, <<"placeholder", "memc">>}))

\* The overrides of test_apply_service_override (lines 356-362) and the
\* custom services of test_sanitize_service (lines 310-340).
OverrideEntries ==
    { Override("mysql", None, {<<"username", "user1">>}),
      Override("mysql", "container-1", {<<"username", "user2">>}),
      Override("memcached", None, {<<"address", "10.1.1.2">>}),
      Override("myservice", None, {<<"this-is-a-bad-servcie", "no port/nagios check">>}),
      Override("mywebapp", None, {<<"port", "8080">>, <<"check_type", "http">>}),
      Override("test", None, {}),
      Override("test", None, {<<"check_type", "nagios">>}),
      Override("test", None, {<<"port", "non-numeric">>}),
      Override("test", None, {<<"port", "1234">>}),
      Override("test", None, {<<"check_type", "nagios">>, <<"check_command", "true">>}),
      Override("test", None, {<<"check_type", "nagios">>, <<"check_command", "true">>, <<"port", "1">>}) }

\* The service_override lists of at most MaxOverride entries.
OverrideLists == UNION {[1..n -> OverrideEntries] : n \in 0..MaxOverride}

\* The None that _sanitize_service returns for a service it refuses, as a
\* value that is no service_info.
NoInfo == [f \in {None} |-> None]

\* dict.update: the fields of other win.
DictUpdate(d, other) == other @@ d

\* int(text): the number for a numeric text, a ValueError otherwise.
ToInt(text) == IF text \in NumericTexts THEN text ELSE None

\* A port that int() converts.
HasPort(service_info) ==
    /\ "port" \in DOMAIN service_info
    /\ ToInt(service_info["port"]) # None

\* A nagios check with its command.
HasNagiosCommand(service_info) ==
    /\ "check_type" \in DOMAIN service_info
    /\ service_info["check_type"] = "nagios"
    /\ "check_command" \in DOMAIN service_info

\* A sanitize that would hand a custom service back as it came.
SanitizeAsIs(service_info, is_discovered_service) == service_info

\* _sanitize_service: a discovered service is kept as it is; a custom
\* service needs a port that is a number or a nagios check command, and one
\* with a port is completed with the address and the protocol.  NoInfo
\* when the service is refused.
SanitizeService(service_info, is_discovered_service) ==
    IF is_discovered_service THEN service_info
    ELSE IF "port" \in DOMAIN service_info
    THEN IF ToInt(service_info["port"]) = None THEN NoInfo
         ELSE DictUpdate(
                  SetDefault(SetDefault(service_info, "address", Loopback),
                             "protocol", ProtocolTcp),
                  [f \in {"port"} |-> ToInt(service_info["port"])])
    ELSE IF HasNagiosCommand(service_info) THEN service_info
    ELSE NoInfo

\* One turn of the loop of _apply_service_override: the override is merged
\* into the service of its (id, instance) key when there is one, the result
\* goes through _sanitize_service and is stored unless it is None.
ApplyServiceOverride ==
    /\ ov_done < Len(ov_override)
    /\ ov_done' = ov_done + 1
    /\ LET entry == ov_override[ov_done + 1]
           key == <<entry.id, entry.instance>>
           known == key \in DOMAIN ov_services
           merged == IF known THEN DictUpdate(ov_services[key], entry.info)
                     ELSE entry.info
           service_info == SanitizeService(merged, known)
       IN  ov_services' = IF service_info = NoInfo THEN ov_services
                          ELSE DictSet(ov_services, key, service_info)
    /\ UNCHANGED ov_override
    /\ UNCHANGED <<mqttVars, ghostVars, lockVars, runVars, settled>>
    /\ UNCHANGED <<cacheVars, queueVars, prodVars, loopVars, syncVars,
                   connVars, entityVars, discoVars, regVars, envVars>>

\* An agent whose configuration holds a service_override list.
InitOverride ==
    /\ InitAgent(WorldMetrics, EmptyDict, EmptyDict, EmptyDict, FALSE)
    /\ ov_services = TestServices
    /\ ov_override \in OverrideLists
    /\ ov_done = 0

NextOverride == ApplyServiceOverride

SpecOverride == InitOverride /\ [][NextOverride]_vars

\* C30: one override leaves every other service as it was and adds no
\* other key; for a service that exists, the fields of the override are
\* merged into it; for one that does not, a custom service with a port or a
\* nagios check command is added with the fields of the override, with
\* address 127.0.0.1 and protocol TCP when it has a port, and anything else
\* adds nothing.
C30_OverrideMerged ==
    [][ov_done' = ov_done + 1 =>
          LET entry == ov_override[ov_done']
              key == <<entry.id, entry.instance>>
              given == DOMAIN entry.info
          IN  /\ \A k \in DOMAIN ov_services \ {key} :
                     /\ k \in DOMAIN ov_services'
                     /\ ov_services'[k] = ov_services[k]
              /\ DOMAIN ov_services' \subseteq DOMAIN ov_services \cup {key}
              /\ key \in DOMAIN ov_services =>
                     /\ key \in DOMAIN ov_services'
                     /\ DOMAIN ov_services'[key] = DOMAIN ov_services[key] \cup given
                     /\ \A f \in given : ov_services'[key][f] = entry.info[f]
                     /\ \A f \in DOMAIN ov_services[key] \ given :
                            ov_services'[key][f] = ov_services[key][f]
              /\ key \notin DOMAIN ov_services =>
                     IF HasPort(entry.info) \/ HasNagiosCommand(entry.info)
                     THEN /\ key \in DOMAIN ov_services'
                          /\ \A f \in given : ov_services'[key][f] = entry.info[f]
                          /\ IF "port" \in given
                             THEN /\ DOMAIN ov_services'[key] = given \cup {"address", "protocol"}
                                  /\ ov_services'[key]["address"] = Loopback
                                  /\ ov_services'[key]["protocol"] = ProtocolTcp
                             ELSE ov_services'[key] = entry.info
                     ELSE key \notin DOMAIN ov_services'
      ]_vars

\* Two overrides are applied: mysql has got its username, mywebapp is added
\* and completed, and the other services of the test are as they were.
C30_Witness ==
    /\ ov_done = 2
    /\ ov_services[<<"mysql", None>>] =
           Info({<<"placeholder", "mysql">>, <<"username", "user1">>})
    /\ <<"mywebapp", None>> \in DOMAIN ov_services
    /\ ov_services[<<"mywebapp", None>>] =
           Info({<<"address", Loopback>>, <<"port", "8080">>,
                 <<"protocol", ProtocolTcp>>, <<"check_type", "http">>})
    /\ ov_services[<<"apache", None>>] = TestServices[<<"apache", None>>]

(***************************************************************************)
(* C31: a metric of a service that is not cached.                          *)
(***************************************************************************)
\* An unresolved metric that has its info and names a service that
\* services_uuid does not hold.
ServiceUncached(metric_key) ==
    /\ metric_key \in DOMAIN metrics_info
    /\ metric_key[2] # None
    /\ ServiceKeyOf(metric_key) \notin DOMAIN services_uuid

\* C31: while the snapshot of the resolver holds a metric whose service is
\* not cached, a step of the loop over the snapshot issues no create call
\* for it, leaves it unresolved in the cache and leaves the loop only to
\* post another metric: the pass does not end with the snapshot unvisited.
C31_UncachedServiceSkipped ==
    [][(/\ spc = "metrics"
        /\ metrics_lock = "sync"
        /\ \E metric_key \in s_todo : ServiceUncached(metric_key)
        /\ <<spc, s_todo>>' # <<spc, s_todo>>) =>
           /\ calls' = calls
           /\ spc' \in {"metrics", "metric_post"}
           /\ \A metric_key \in s_todo :
                  ServiceUncached(metric_key) =>
                      /\ metric_key \in DOMAIN metrics_uuid'
                      /\ metrics_uuid'[metric_key] = None
                      /\ spc' = "metric_post" => s_key' # metric_key
      ]_vars

(***************************************************************************)
(* C32: the dependencies of a create call.                                 *)
(***************************************************************************)
\* The metric the loop of _register_metric has just left, if any.
Visited == IF spc = "metrics" /\ metrics_lock = "sync" THEN s_todo \ s_todo' ELSE {}

\* The parent of a status metric is cached and unresolved.
ParentUnresolved(metric_key) ==
    /\ metric_key \in DOMAIN metrics_info
    /\ metrics_info[metric_key].status_of # None
    /\ FromMetricKey(metric_key) \in DOMAIN metrics_uuid
    /\ metrics_uuid[FromMetricKey(metric_key)] = None

\* The container of a metric exists locally and holds no remote identifier.
ContainerUnregistered(metric_key) ==
    /\ metric_key \in DOMAIN metrics_info
    /\ metrics_info[metric_key].container # None
    /\ metrics_info[metric_key].container \in DOMAIN docker_containers
    /\ \/ metrics_info[metric_key].container \notin DOMAIN container_uuid
       \/ container_uuid[metrics_info[metric_key].container][2] = None

\* The container of a metric no longer exists locally.
ContainerGone(metric_key) ==
    /\ metric_key \in DOMAIN metrics_info
    /\ metrics_info[metric_key].container # None
    /\ metrics_info[metric_key].container \notin DOMAIN docker_containers

\* The create calls of metrics the step issues.
NewMetricCreates ==
    {call \in NewCalls : call.op = "POST" /\ call.kind = "metric"}

\* C32: a create call of a metric carries the identifier cached for its
\* parent and for its container, neither being None; a visited metric
\* whose parent is unresolved or whose container exists with no identifier
\* gets no call and stays unresolved; a visited metric whose container no
\* longer exists is removed from the cache with no call.
C32_CreateAfterDependencies ==
    [][/\ \A call \in NewMetricCreates :
              LET info == metrics_info[call.target] IN
              /\ info.status_of # None =>
                     /\ "status_of" \in DOMAIN call.payload
                     /\ call.payload["status_of"] # None
                     /\ call.payload["status_of"] =
                            CacheValue(FromMetricKey(call.target))
              /\ info.container # None =>
                     /\ "container" \in DOMAIN call.payload
                     /\ call.payload["container"] # None
                     /\ info.container \in DOMAIN container_uuid
                     /\ call.payload["container"] =
                            container_uuid[info.container][2]
       /\ \A metric_key \in Visited :
              /\ (ParentUnresolved(metric_key)
                  \/ ContainerUnregistered(metric_key)) =>
                     /\ calls' = calls
                     /\ spc' = "metrics"
                     /\ metric_key \in DOMAIN metrics_uuid'
                     /\ metrics_uuid'[metric_key] = None
              /\ ContainerGone(metric_key) =>
                     /\ calls' = calls
                     /\ spc' = "metrics"
                     /\ metric_key \notin DOMAIN metrics_uuid'
      ]_vars

\* The resolver has built the create call of a status metric whose parent
\* is resolved: the payload names the parent.
C32_Witness ==
    /\ spc = "metric_post"
    /\ "status_of" \in DOMAIN s_payload

(***************************************************************************)
(* C33: entries of the state file never emitted since the start.           *)
(***************************************************************************)
\* A restart whose state file holds cpu, seen and never registered by the
\* earlier run, and mem, registered by it; cpu may be emitted again, mem is
\* not; the registry can refuse to create a metric.
StaleState == (CpuKey :> None) @@ (<<"mem", None, None>> :> Uuids[1])
InitStale == InitWith(WorldMetrics, StaleState, RemoteOf(StaleState))

SpecStale == InitStale /\ [][NextMetrics]_vars

\* The unresolved entries of the snapshot that have no info.
StaleLeft ==
    {key \in DOMAIN s_list \cap DOMAIN metrics_uuid :
        metrics_uuid[key] = None /\ key \notin DOMAIN metrics_info}

\* The steps of _register_metric.
InResolver == spc \in {"metrics", "metric_post", "metric_store"}

\* C33: a resolver cycle that ends without an exception leaves no
\* unresolved entry of its snapshot without info; a visited entry without
\* info is removed and the removal persisted, with no call; the resolver
\* keeps an entry that holds an identifier and has no info; agent_status
\* always has its info.
C33_StalePurgedInCycle ==
    [][/\ (/\ InResolver
           /\ spc' = "done"
           /\ \A i \in 1..Len(calls') : calls'[i].outcome # "exc") =>
              StaleLeft' = {}
       /\ \A key \in Visited :
              key \notin DOMAIN metrics_info =>
                  /\ key \notin DOMAIN metrics_uuid'
                  /\ state_metrics_uuid' = metrics_uuid'
                  /\ calls' = calls
       /\ InResolver =>
              \A key \in DOMAIN metrics_uuid \ DOMAIN metrics_info :
                  metrics_uuid[key] # None =>
                      /\ key \in DOMAIN metrics_uuid'
                      /\ metrics_uuid'[key] = metrics_uuid[key]
       /\ AgentStatusKey \in DOMAIN metrics_info'
      ]_vars

(***************************************************************************)
(* C34: the info of a metric is recorded once.                             *)
(***************************************************************************)
\* A point of cpu that carries another status_of, instance and container
\* than PtCpu.
PtCpuAgain == Point("cpu", None, None, "ok", "load", "inst", "web1")

\* A fresh installation whose collaborators emit cpu with the one and with
\* the other info.
WorldInfo ==
    World({PtCpu, PtCpuAgain}, EmptyDict, EmptyDict, {FALSE}, Reliable, {},
          FALSE, FALSE)

InitInfo == InitWith(WorldInfo, EmptyDict, EmptyDict)

SpecInfo == InitInfo /\ [][NextMetrics]_vars

\* C34: the locked section of emit_metric leaves metrics_info as it is when
\* the identity has its info, and writes the info of the point otherwise;
\* it leaves metrics_uuid as it is when the identity is cached, and adds
\* it unresolved otherwise.
C34_FirstWriteWins ==
    [][\A p \in Producers :
           Records(p) =>
               LET key == KeyOf(pmetric[p]) IN
               /\ metrics_info' =
                      IF key \in DOMAIN metrics_info THEN metrics_info
                      ELSE (key :> InfoOf(pmetric[p])) @@ metrics_info
               /\ metrics_uuid' =
                      IF key \in DOMAIN metrics_uuid THEN metrics_uuid
                      ELSE (key :> None) @@ metrics_uuid
      ]_vars

\* emit_metric is about to record a point of cpu whose info differs from
\* the info recorded first, cpu being resolved.
C34_Witness ==
    \E p \in Producers :
        /\ ppc[p] = "record"
        /\ metrics_lock = p
        /\ KeyOf(pmetric[p]) \in DOMAIN metrics_info
        /\ metrics_info[KeyOf(pmetric[p])] # InfoOf(pmetric[p])
        /\ CacheValue(KeyOf(pmetric[p])) \notin {None, "absent"}

(***************************************************************************)
(* C35: one run of _register_services.                                     *)
(***************************************************************************)
\* The service the loop of _register_services has just left, if any.
VisitedServices == IF spc = "services" THEN s_todo \ s_todo' ELSE {}

\* The cached descriptor with the identifier id.
Cached(id, key) == ("uuid" :> id) @@ ServiceEntry(key, s_list[key])

\* C35: for a service of the loop, one create call when it is not cached,
\* one update call on its cached identifier when its cached descriptor
\* differs from the local one, no call when they are equal; on the expected
\* status the cache holds the local descriptor with the identifier of the
\* answer and is persisted, otherwise the cache is left as it is.
C35_ServiceRegistration ==
    [][\A key \in VisitedServices :
           LET id == IF key \in DOMAIN services_uuid
                     THEN services_uuid[key].uuid ELSE None
           IN
           IF key \in DOMAIN services_uuid /\ services_uuid[key] = Cached(id, key)
           THEN /\ calls' = calls
                /\ services_uuid' = services_uuid
           ELSE /\ Len(calls') = Len(calls) + 1
                /\ \A call \in NewCalls :
                       /\ call.kind = "service"
                       /\ call.payload = ServiceEntry(key, s_list[key])
                       /\ IF key \in DOMAIN services_uuid
                          THEN call.op = "PUT" /\ call.target = id
                          ELSE call.op = "POST" /\ call.target = key
                       /\ IF call.outcome = "ok"
                          THEN /\ key \in DOMAIN services_uuid'
                               /\ services_uuid'[key] =
                                      Cached(services_uuid'[key].uuid, key)
                               /\ IF key \in DOMAIN services_uuid
                                  THEN services_uuid'[key].uuid = id
                                  ELSE services_uuid'[key].uuid
                                           \in remote_services' \ remote_services
                               /\ \A other \in DOMAIN services_uuid \ {key} :
                                      /\ other \in DOMAIN services_uuid'
                                      /\ services_uuid'[other] = services_uuid[other]
                               /\ state_services_uuid' = services_uuid'
                          ELSE services_uuid' = services_uuid
      ]_vars

\* An update call has been accepted: the cache holds the descriptor of the
\* service found on its new port.
C35_Witness ==
    /\ \E i \in 1..Len(calls) :
           /\ calls[i].op = "PUT"
           /\ calls[i].kind = "service"
           /\ calls[i].outcome = "ok"
    /\ MysqlKey \in DOMAIN services_uuid
    /\ MysqlKey \in DOMAIN services
    /\ services_uuid[MysqlKey].listen_addresses = GetListenAddresses(services[MysqlKey])

(***************************************************************************)
(* C36: when a pass is a full reconciliation.                              *)
(***************************************************************************)
\* A pass starts.
StartsPass == spc \in {"idle", "registered"} /\ spc' \notin {"idle", "registered"}

\* The full reconciliation of a pass has run to its end.
EndsFull == spc = "thr_del" /\ spc' \in {"containers", "services"}

\* More than the delay has elapsed since the last full reconciliation, or
\* a service auto-removal or a container removal happened at or after it.
FullDue(now) ==
    \/ now - last_update > FullSyncDelay
    \/ last_services_autoremove >= last_update
    \/ last_containers_removed >= last_update

\* The step is a delete call of the given kind that the registry accepts.
DeleteAccepted(kind) ==
    \E call \in NewCalls :
        call.op = "DELETE" /\ call.kind = kind /\ call.outcome = "ok"

\* The pass has had a delete call of a service accepted.
ServiceDeleteInPass ==
    \E i \in 1..Len(calls) :
        /\ calls[i].op = "DELETE"
        /\ calls[i].kind = "service"
        /\ calls[i].outcome = "ok"

\* on_message has handled a resync: the recorded time is reset.
ResyncHandled == last_update' = 0 /\ resync_pending'

\* What C36 says of the time stamps, whatever "deletion" is read as: a
\* pass is a full reconciliation exactly when it is due; it starts after
\* every removal recorded so far; the end of a full reconciliation records
\* the time its pass started; a container delete call that succeeds and a
\* service auto-removal are recorded at or after the last full
\* reconciliation, and their times never go back.
StampsFollowed ==
    /\ StartsPass =>
           /\ spc' = "agent" <=> FullDue(s_now')
           /\ s_now' > last_services_autoremove
           /\ s_now' > last_containers_removed
    /\ EndsFull => last_update' = s_now
    /\ DeleteAccepted("container") =>
           last_containers_removed' >= last_update'
    /\ last_services_autoremove' # last_services_autoremove =>
           last_services_autoremove' >= last_update'
    /\ last_services_autoremove' >= last_services_autoremove
    /\ last_containers_removed' >= last_containers_removed

ServicesFetched ==
    \E i \in 1..Len(calls) : calls[i].op = "GET" /\ calls[i].kind = "service"

\* A step that deletes a service on the registry or in the cache.
ServiceDeleteStep ==
    \/ \E call \in NewCalls : call.op = "DELETE" /\ call.kind = "service"
    \/ DOMAIN services_uuid' # DOMAIN services_uuid
       /\ DOMAIN services_uuid' \subseteq DOMAIN services_uuid

\* C37 (as stated): in a full reconciliation the list of the registry is
\* fetched first, before any cache entry is deleted and before any delete
\* call is issued, so a step that deletes a service on the registry or
\* drops one from the cache follows the fetch of the list in its pass.
C37_FetchBeforeDelete ==
    [][ServiceDeleteStep => ServicesFetched']_vars

\* ---------------------------------------------------------------------
\* C38: the points the drain loop discards.

\* The step deletes or purges no identity of the cache.
IdentitiesKept == DOMAIN metrics_uuid \subseteq DOMAIN metrics_uuid'

\* The step is the drain loop discarding the point it dequeues.
Discards == Dequeues /\ LoopVerdict(Head(metric_queue)) = "drop"

\* C38 (as stated): the drain loop discards a dequeued point only when its
\* identity is Deleted.  In a run that never deletes nor purges an identity
\* (every step keeps the identities the cache holds), no point accepted by
\* emit_metric is discarded, however the steps of emit_metric and of the
\* drain loop interleave.
C38_DiscardOnlyDeleted == [][IdentitiesKept /\ ~Discards]_vars

\* ---------------------------------------------------------------------
\* C39: the places a point of the outbound queue can be in.

\* A restart with cpu seen and not registered by the earlier run, and a
\* broker whose connection comes and goes.
PlacesState == (CpuKey :> None) @@ (AgentStatusKey :> Uuids[1])
WorldPlaces ==
    [World({PtCpu}, EmptyDict, EmptyDict, {FALSE}, Reliable, {}, FALSE,
           FALSE) EXCEPT !.mqtt = TRUE]
InitPlaces == InitWith(WorldPlaces, PlacesState, RemoteOf(PlacesState))
NextPlaces ==
    \/ ApplyUpgrade
    \/ Producer
    \/ DrainLoop
    \/ PassCore
    \/ OnConnect \/ OnDisconnect
    \/ PublishLoad("net") \/ PublishStore("net")
SpecPlaces == InitPlaces /\ [][NextPlaces]_vars

\* The object identities of the points of a list, in order.
PidsIn(points) == [i \in 1..Len(points) |-> points[i].pid]

\* The points of the queue, the one the loop holds to put it back, those of
\* the batch being built and those handed to publish.
PointsHeld ==
    PidsIn(metric_queue)
        \o (IF l_metric = NoPoint THEN <<>> ELSE <<l_metric.pid>>)
        \o PidsIn(l_metrics)
        \o PidsIn(Flatten(published))

\* No point is in two places, nor twice in one.
OnePlace(held) ==
    \A i, j \in 1..Len(held) : held[i] = held[j] => i = j

Range(seq) == {seq[i] : i \in 1..Len(seq)}

\* The step is the producer p putting its point in the queue.
Puts(p) == ppc[p] = "put" /\ ppc'[p] = "record"

\* C39: a point enters the places with the put of emit_metric and leaves
\* them only when the drain loop discards it; every other step, the
\* re-queuing of an unresolved point and the connection events included,
\* keeps the points held, and no point is ever in two places, in two
\* published batches or twice in one.
C39_OnePlace ==
    [][/\ OnePlace(PointsHeld')
       /\ Range(PointsHeld') =
              IF \E p \in DOMAIN ppc : Puts(p)
              THEN Range(PointsHeld) \cup
                       {pmetric[p].pid : p \in {q \in DOMAIN ppc : Puts(q)}}
              ELSE IF Discards
              THEN Range(PointsHeld) \ {Head(metric_queue).pid}
              ELSE Range(PointsHeld)]_vars

\* The first point emitted was put back in the queue and has been handed
\* to publish after the second one, and the connection has been lost and
\* made again.
C39_Witness ==
    /\ PidsIn(Flatten(published)) = <<Pids[2], Pids[1]>>
    /\ mqtt_events = MaxMqttEvents
    /\ connected

\* ---------------------------------------------------------------------
\* C40: the identity map is written under metrics_lock only.

\* The step writes metrics_uuid or metrics_info.
WritesCache == metrics_uuid' # metrics_uuid \/ metrics_info' # metrics_info

\* The thread that takes the step holds the lock: a producer recording its
\* identity, or else the synchronization.
WriterHoldsLock ==
    IF \E p \in DOMAIN ppc : Records(p)
    THEN \A p \in DOMAIN ppc : Records(p) => metrics_lock = p
    ELSE metrics_lock = "sync"

\* C40: once __init__ is over, every step that writes metrics_uuid or
\* metrics_info is taken by the thread that holds metrics_lock; the entry
\* the resolver decides on is still in the cache, unresolved, and the
\* entry it stores an identifier in is still there, whatever emit_metric
\* has recorded since the snapshot.
C40_WritesUnderLock ==
    [][boot = "run" =>
           /\ WritesCache => WriterHoldsLock
           /\ \A metric_key \in Visited :
                  CacheValue(metric_key) = None
           /\ (spc = "metric_store" /\ spc' # "metric_store") =>
                  CacheValue(s_key) = None]_vars

\* The resolver has removed an entry of its snapshot while a producer is
\* about to record the same identity.
C40_Witness ==
    /\ spc = "metrics"
    /\ \E p \in DOMAIN ppc :
           /\ ppc[p] = "record"
           /\ KeyOf(pmetric[p]) \in DOMAIN s_list
           /\ KeyOf(pmetric[p]) \notin DOMAIN metrics_uuid
====
